------------------------------ MODULE PoolProofs ------------------------------
(***************************************************************************)
(* Proofs about the pool for every geometry of the region, every size of   *)
(* the magazine and every set of sizes: as long as no request wraps the    *)
(* bump (NoWrap), the lists stay intact, no block in use is written, and   *)
(* the blocks tile the pages handed out.  Without it none of this holds:   *)
(* see LargeBeyondRegionFails.                                             *)
(***************************************************************************)
EXTENDS PoolProperties, FreeListTheorems, SumTheorems

-------------------------------------------------------------------------------
(***************************************************************************)
(* What the operations preserve of a heap.  U is the set of blocks in use. *)
(***************************************************************************)
\* A heap whose lists are intact and hold only blocks of their own class that
\* are not in use, and whose assigned pages are those below the bump.
Sound(h, U) ==
    /\ h \in HeapType
    /\ \A k \in Kind :
          /\ IsList(h.lists[k], h.mem, h.chains[k])
          /\ \A b \in FreeBlocks(h, k) : h.page_class[b[1]] = k
          /\ FreeBlocks(h, k) \cap U = {}
    /\ U \subseteq Address
    /\ \A b \in U : h.page_class[b[1]] \in Kind
    /\ \A b \in U \cup AllFree(h) : h.page_class[b[1]] = LARGE => b[2] = 0
    /\ \A p \in Page : (p < h.bump) = (h.page_class[p] # UNASSIGNED)

\* What no call changes from h to g: the pages that are assigned, and the
\* words outside the free blocks.
Frame(h, g) ==
    /\ h.bump <= g.bump
    /\ \A p \in Page : h.page_class[p] # UNASSIGNED =>
          g.page_class[p] = h.page_class[p] /\ g.total[p] = h.total[p]
    /\ \A a \in Address : h.page_class[a[1]] # UNASSIGNED /\ a \notin AllFree(h)
          => g.mem[a] = h.mem[a]

-------------------------------------------------------------------------------
(* Constants. *)

\* The two marks of page_class are not classes.
LEMMA KindFacts ==
    /\ LARGE \in Kind /\ UNASSIGNED \notin Kind /\ LARGE \notin Class
    /\ Class \subseteq Kind
  BY GeometryAssumption DEF Kind, Class, LARGE, UNASSIGNED

\* An address is a page and a slot.
LEMMA AddressFacts ==
    /\ \A a \in Address : a[1] \in Page /\ a[2] \in Slot /\ a = <<a[1], a[2]>>
    /\ \A p \in Page : <<p, 0>> \in Address /\ <<p, 1>> \in Address
    /\ NULL \notin Address
  BY GeometryAssumption, OtherAssumption DEF Address, Slot

\* The free blocks of a sound heap are addresses, of pages of their kind.
LEMMA FreeFacts ==
    ASSUME NEW h, NEW U, Sound(h, U)
    PROVE  /\ \A k \in Kind : /\ h.lists[k] \in List(Address)
                              /\ h.chains[k] \in Seq(Address)
                              /\ FreeBlocks(h, k) \subseteq Address
           /\ DOMAIN h.mem = Address
           /\ AllFree(h) \subseteq Address
           /\ \A b \in AllFree(h) : h.page_class[b[1]] \in Kind
<1>1. \A k \in Kind : h.lists[k] \in List(Address) /\ h.chains[k] \in Seq(Address)
  BY DEF Sound, HeapType
<1>2. \A k \in Kind : FreeBlocks(h, k) \subseteq Address
  BY <1>1 DEF FreeBlocks, FreeOf, ToSet, List
<1>3. DOMAIN h.mem = Address
  BY DEF Sound, HeapType
<1>4. \A b \in AllFree(h) : h.page_class[b[1]] \in Kind
  <2> SUFFICES ASSUME NEW k \in Kind, NEW b \in FreeBlocks(h, k)
               PROVE  h.page_class[b[1]] \in Kind
    BY DEF AllFree
  <2> QED
    BY DEF Sound
<1> QED
  BY <1>1, <1>2, <1>3, <1>4 DEF AllFree

-------------------------------------------------------------------------------
(* A block leaves its list, and comes back. *)

\* The block a pop returns was free, and is in use afterwards: nothing else
\* changes, free_list_pop.
LEMMA PopSound ==
    ASSUME NEW h, NEW U, Sound(h, U), NEW k \in Kind, Top(h.lists[k]) # NULL
    PROVE  /\ Sound(PopFrom(h, k), U \cup {Top(h.lists[k])})
           /\ Top(h.lists[k]) \in FreeBlocks(h, k)
           /\ AllFree(PopFrom(h, k)) = AllFree(h) \ {Top(h.lists[k])}
           /\ PopFrom(h, k).bump = h.bump
           /\ PopFrom(h, k).page_class = h.page_class
           /\ PopFrom(h, k).mem = h.mem
           /\ PopFrom(h, k).total = h.total
<1> DEFINE g == PopFrom(h, k)
           top == Top(h.lists[k])
<1>1. /\ h \in HeapType /\ h.lists[k] \in List(Address)
      /\ h.chains[k] \in Seq(Address) /\ DOMAIN h.mem = Address
      /\ IsList(h.lists[k], h.mem, h.chains[k])
  BY FreeFacts DEF Sound
<1>2. /\ Popped(h.lists[k], h.mem) \in List(Address)
      /\ PoppedChain(h.lists[k], h.chains[k]) \in Seq(Address)
      /\ IsList(Popped(h.lists[k], h.mem), h.mem,
                PoppedChain(h.lists[k], h.chains[k]))
      /\ top \in FreeBlocks(h, k)
      /\ FreeOf(Popped(h.lists[k], h.mem), PoppedChain(h.lists[k], h.chains[k]))
           = FreeBlocks(h, k) \ {top}
  BY <1>1, AddressFacts, PopIsList DEF FreeBlocks
<1>3. /\ g.bump = h.bump /\ g.page_class = h.page_class
      /\ g.mem = h.mem /\ g.total = h.total
      /\ DOMAIN g.lists = Kind /\ DOMAIN g.chains = Kind
      /\ g.lists[k] = Popped(h.lists[k], h.mem)
      /\ g.chains[k] = PoppedChain(h.lists[k], h.chains[k])
      /\ \A j \in Kind \ {k} : g.lists[j] = h.lists[j] /\ g.chains[j] = h.chains[j]
  BY <1>1 DEF HeapType, PopFrom
<1>4. g \in HeapType
  BY <1>1, <1>2 DEF HeapType, PopFrom
<1> HIDE DEF g, top
<1>5. /\ FreeBlocks(g, k) = FreeBlocks(h, k) \ {top}
      /\ \A j \in Kind \ {k} : FreeBlocks(g, j) = FreeBlocks(h, j)
  BY <1>2, <1>3 DEF FreeBlocks
<1>6. \A j \in Kind : IsList(g.lists[j], g.mem, g.chains[j])
  <2> SUFFICES ASSUME NEW j \in Kind PROVE IsList(g.lists[j], g.mem, g.chains[j])
    OBVIOUS
  <2>1. CASE j = k
    BY <1>2, <1>3, <2>1
  <2>2. CASE j # k
    BY <1>3, <2>2 DEF Sound
  <2> QED
    BY <2>1, <2>2
<1>7. \A i, j \in Kind : i # j => FreeBlocks(h, i) \cap FreeBlocks(h, j) = {}
  BY DEF Sound
<1>8. \A j \in Kind : FreeBlocks(g, j) \cap (U \cup {top}) = {}
  BY <1>2, <1>5, <1>7 DEF Sound
<1>9. AllFree(g) = AllFree(h) \ {top}
  BY <1>2, <1>5, <1>7 DEF AllFree
<1>10. top \in Address /\ h.page_class[top[1]] = k /\ top \in AllFree(h)
  BY <1>2, FreeFacts DEF Sound, AllFree
<1>11. /\ U \cup {top} \subseteq Address
       /\ \A b \in U \cup {top} : g.page_class[b[1]] \in Kind
       /\ (U \cup {top}) \cup AllFree(g) = U \cup AllFree(h)
  BY <1>3, <1>9, <1>10 DEF Sound
<1>12. Sound(g, U \cup {top})
  BY <1>3, <1>4, <1>5, <1>6, <1>8, <1>11 DEF Sound
<1> QED
  BY <1>2, <1>3, <1>9, <1>12 DEF g, top

\* A block in use is given back to the list of its class: only the word of the
\* block itself may be written, free_list_push.
LEMMA PushSound ==
    ASSUME NEW h, NEW U, Sound(h, U), NEW b \in U, NEW k \in Kind,
           h.page_class[b[1]] = k
    PROVE  /\ Sound(PushTo(h, k, b), U \ {b})
           /\ AllFree(PushTo(h, k, b)) = AllFree(h) \cup {b}
           /\ PushTo(h, k, b).bump = h.bump
           /\ PushTo(h, k, b).page_class = h.page_class
           /\ PushTo(h, k, b).total = h.total
           /\ \A a \in Address \ {b} : PushTo(h, k, b).mem[a] = h.mem[a]
<1> DEFINE g == PushTo(h, k, b)
           m == PushMem(h.lists[k], h.mem, b)
<1>1. /\ h \in HeapType /\ h.lists[k] \in List(Address)
      /\ h.chains[k] \in Seq(Address) /\ DOMAIN h.mem = Address
      /\ IsList(h.lists[k], h.mem, h.chains[k])
      /\ b \in Address /\ b \notin FreeOf(h.lists[k], h.chains[k])
  BY FreeFacts DEF Sound, FreeBlocks
<1>2. /\ Push(h.lists[k], b) \in List(Address)
      /\ PushChain(h.lists[k], h.chains[k], b) \in Seq(Address)
      /\ IsList(Push(h.lists[k], b), m, PushChain(h.lists[k], h.chains[k], b))
      /\ FreeOf(Push(h.lists[k], b), PushChain(h.lists[k], h.chains[k], b))
           = FreeOf(h.lists[k], h.chains[k]) \cup {b}
      /\ \A a \in Address \ {b} : m[a] = h.mem[a]
  BY <1>1, AddressFacts, PushIsList
<1>3. m \in [Address -> Word]
  <2>1. h.mem \in [Address -> Word] /\ h.lists[k].head \in Address \cup {NULL}
    BY <1>1 DEF HeapType, List
  <2> QED
    BY <1>1, <2>1 DEF PushMem, Word
<1> HIDE DEF m
<1>4. /\ g.bump = h.bump /\ g.page_class = h.page_class
      /\ g.mem = m /\ g.total = h.total
      /\ DOMAIN g.lists = Kind /\ DOMAIN g.chains = Kind
      /\ g.lists[k] = Push(h.lists[k], b)
      /\ g.chains[k] = PushChain(h.lists[k], h.chains[k], b)
      /\ \A j \in Kind \ {k} : g.lists[j] = h.lists[j] /\ g.chains[j] = h.chains[j]
  BY <1>1 DEF HeapType, PushTo, m
<1>5. g \in HeapType
  BY <1>1, <1>2, <1>3 DEF HeapType, PushTo, m
<1> HIDE DEF g
<1>6. /\ FreeBlocks(g, k) = FreeBlocks(h, k) \cup {b}
      /\ \A j \in Kind \ {k} : FreeBlocks(g, j) = FreeBlocks(h, j)
  BY <1>2, <1>4 DEF FreeBlocks
<1>7. \A j \in Kind : IsList(g.lists[j], g.mem, g.chains[j])
  <2> SUFFICES ASSUME NEW j \in Kind PROVE IsList(g.lists[j], g.mem, g.chains[j])
    OBVIOUS
  <2>1. CASE j = k
    BY <1>2, <1>4, <2>1
  <2>2. CASE j # k
    <3>1. IsList(h.lists[j], h.mem, h.chains[j]) /\ b \notin FreeBlocks(h, j)
      BY DEF Sound
    <3>2. \A a \in ToSet(h.chains[j]) : a \in Address /\ a # b
      BY <3>1, FreeFacts DEF FreeBlocks, FreeOf
    <3>3. \A a \in ToSet(h.chains[j]) : m[a] = h.mem[a]
      BY <1>2, <3>2
    <3> QED
      BY <1>4, <2>2, <3>1, <3>3, ListFrame
  <2> QED
    BY <2>1, <2>2
<1>8. AllFree(g) = AllFree(h) \cup {b}
  BY <1>6 DEF AllFree
<1>9. \A j \in Kind : FreeBlocks(g, j) \cap (U \ {b}) = {}
  BY <1>6 DEF Sound
<1>10. \A j \in Kind : \A a \in FreeBlocks(g, j) : g.page_class[a[1]] = j
  BY <1>4, <1>6 DEF Sound
<1>11. Sound(g, U \ {b})
  BY <1>4, <1>5, <1>7, <1>8, <1>9, <1>10 DEF Sound
<1> QED
  BY <1>2, <1>4, <1>8, <1>11 DEF g

\* A word outside the free blocks is written: no list notices.
LEMMA SetWordSound ==
    ASSUME NEW h, NEW U, Sound(h, U), NEW a \in Address, a \notin AllFree(h),
           NEW word \in Word
    PROVE  /\ Sound(SetWord(h, a, word), U)
           /\ AllFree(SetWord(h, a, word)) = AllFree(h)
           /\ SetWord(h, a, word).bump = h.bump
           /\ SetWord(h, a, word).page_class = h.page_class
           /\ SetWord(h, a, word).total = h.total
           /\ SetWord(h, a, word).lists = h.lists
           /\ SetWord(h, a, word).mem[a] = word
           /\ \A x \in Address \ {a} : SetWord(h, a, word).mem[x] = h.mem[x]
<1> DEFINE g == SetWord(h, a, word)
<1>1. h \in HeapType /\ DOMAIN h.mem = Address
  BY FreeFacts DEF Sound
<1>2. /\ g.bump = h.bump /\ g.page_class = h.page_class /\ g.total = h.total
      /\ g.lists = h.lists /\ g.chains = h.chains
      /\ g.mem = [h.mem EXCEPT ![a] = word]
  BY <1>1 DEF HeapType, SetWord
<1>3. g \in HeapType
  BY <1>1 DEF HeapType, SetWord
<1> HIDE DEF g
<1>4. g.mem[a] = word /\ \A x \in Address \ {a} : g.mem[x] = h.mem[x]
  BY <1>1, <1>2
<1>5. AllFree(g) = AllFree(h) /\ \A k \in Kind : FreeBlocks(g, k) = FreeBlocks(h, k)
  BY <1>2 DEF AllFree, FreeBlocks
<1>6. \A k \in Kind : IsList(g.lists[k], g.mem, g.chains[k])
  <2> SUFFICES ASSUME NEW k \in Kind PROVE IsList(g.lists[k], g.mem, g.chains[k])
    OBVIOUS
  <2>1. \A x \in ToSet(h.chains[k]) : x \in Address /\ x # a
    BY FreeFacts DEF AllFree, FreeBlocks, FreeOf
  <2>2. \A x \in ToSet(h.chains[k]) : g.mem[x] = h.mem[x]
    BY <1>4, <2>1
  <2>3. IsList(h.lists[k], h.mem, h.chains[k])
    BY DEF Sound
  <2>4. IsList(h.lists[k], g.mem, h.chains[k])
    BY <2>2, <2>3, ListFrame
  <2> QED
    BY <1>2, <2>4
<1>7. Sound(g, U)
  BY <1>2, <1>3, <1>5, <1>6 DEF Sound
<1> QED
  BY <1>2, <1>4, <1>5, <1>7 DEF g

-------------------------------------------------------------------------------
(* The region grows. *)

\* The n pages from the bump of h are given the class k.
Taken(h, g, n, k) ==
    /\ h.bump \in Page /\ n \in Nat \ {0}
    /\ g.bump = h.bump + n /\ g.bump <= PAGES
    /\ \A p \in Page :
          g.page_class[p] = IF h.bump <= p /\ p < h.bump + n
                            THEN k ELSE h.page_class[p]

\* A sum below the wrap is not reduced.
LEMMA NoRemainder ==
    ASSUME NEW x \in Nat, NEW w \in Nat, x < w
    PROVE  x % w = x
  OBVIOUS

\* The sum does not wrap: the pages taken are the ones behind the bump, and
\* were not assigned, bump_raw and tag_page_class.
LEMMA BumpSound ==
    ASSUME NEW h, NEW U, Sound(h, U), NEW n \in Nat \ {0}, NEW k \in Kind,
           n + PAGES < WRAP_PAGES, BumpFits(h, n)
    PROVE  /\ Sound(Bump(h, n, k), U)
           /\ Taken(h, Bump(h, n, k), n, k)
           /\ Bump(h, n, k).lists = h.lists
           /\ Bump(h, n, k).chains = h.chains
           /\ Bump(h, n, k).mem = h.mem
           /\ Bump(h, n, k).total = h.total
           /\ AllFree(Bump(h, n, k)) = AllFree(h)
           /\ \A b \in U \cup AllFree(h) : b \in Address /\ b[1] < h.bump
<1> DEFINE g == Bump(h, n, k)
<1>1. /\ h \in HeapType /\ h.bump \in 0 .. PAGES /\ PAGES \in Nat \ {0}
      /\ WRAP_PAGES \in Nat
  BY GeometryAssumption DEF Sound, HeapType
<1>2. AfterBump(h, n) = h.bump + n
  <2>1. h.bump + n \in Nat /\ h.bump + n < WRAP_PAGES
    BY <1>1
  <2> QED
    BY <1>1, <2>1, NoRemainder DEF AfterBump
<1>3. h.bump + n <= PAGES /\ h.bump \in Page
  BY <1>1, <1>2 DEF BumpFits, Page
<1>4. Tagged(h, n) = {p \in Page : h.bump <= p /\ p < h.bump + n}
  <2>1. h.bump + n - 1 \in Nat /\ h.bump + n - 1 < WRAP_PAGES
    BY <1>1, <1>3
  <2>2. (h.bump + n - 1) % WRAP_PAGES = h.bump + n - 1
    BY <1>1, <2>1, NoRemainder
  <2> QED
    BY <1>1, <2>2 DEF Tagged, Page
<1>5. /\ g.bump = h.bump + n /\ g.lists = h.lists /\ g.chains = h.chains
      /\ g.mem = h.mem /\ g.total = h.total
      /\ g.page_class = [p \in Page |->
             IF p \in Tagged(h, n) THEN k ELSE h.page_class[p]]
  BY <1>1, <1>2 DEF HeapType, Bump
<1>6. g \in HeapType
  <2>1. h.bump + n \in 0 .. PAGES
    BY <1>1, <1>3
  <2> QED
    BY <1>1, <1>2, <2>1 DEF HeapType, Bump
<1>7. \A p \in Page : g.page_class[p] = IF h.bump <= p /\ p < h.bump + n
                                       THEN k ELSE h.page_class[p]
  BY <1>4, <1>5
<1> HIDE DEF g
<1>8. Taken(h, g, n, k)
  BY <1>3, <1>5, <1>7 DEF Taken
<1>9. AllFree(g) = AllFree(h) /\ \A j \in Kind : FreeBlocks(g, j) = FreeBlocks(h, j)
  BY <1>5 DEF AllFree, FreeBlocks
<1>10. \A b \in U \cup AllFree(h) :
          b \in Address /\ b[1] \in Page /\ h.page_class[b[1]] # UNASSIGNED
  <2>1. \A b \in U : b \in Address /\ h.page_class[b[1]] \in Kind
    BY DEF Sound
  <2>2. \A b \in AllFree(h) : b \in Address /\ h.page_class[b[1]] \in Kind
    BY FreeFacts
  <2> QED
    BY <2>1, <2>2, AddressFacts, KindFacts
<1>11. \A b \in U \cup AllFree(h) : b \in Address /\ b[1] < h.bump
  BY <1>10 DEF Sound
<1>12. \A b \in U \cup AllFree(h) : g.page_class[b[1]] = h.page_class[b[1]]
  <2> SUFFICES ASSUME NEW b \in U \cup AllFree(h)
               PROVE  g.page_class[b[1]] = h.page_class[b[1]]
    OBVIOUS
  <2>1. b[1] \in Page /\ ~(h.bump <= b[1])
    BY <1>1, <1>10, <1>11 DEF Page
  <2> QED
    BY <1>7, <2>1
<1>13. \A j \in Kind : FreeBlocks(h, j) \subseteq AllFree(h)
  BY DEF AllFree
<1>14. \A p \in Page : (p < g.bump) = (g.page_class[p] # UNASSIGNED)
  <2> SUFFICES ASSUME NEW p \in Page
               PROVE  (p < g.bump) = (g.page_class[p] # UNASSIGNED)
    OBVIOUS
  <2>1. p \in Nat /\ h.bump \in Nat /\ (p < h.bump) = (h.page_class[p] # UNASSIGNED)
    BY <1>1 DEF Sound, Page
  <2>2. CASE h.bump <= p /\ p < h.bump + n
    BY <1>5, <1>7, <2>2, KindFacts
  <2>3. CASE ~(h.bump <= p /\ p < h.bump + n)
    <3>1. g.page_class[p] = h.page_class[p]
      BY <1>7, <2>3
    <3>2. (p < g.bump) = (p < h.bump)
      BY <1>5, <2>1, <2>3
    <3> QED
      BY <2>1, <3>1, <3>2
  <2> QED
    BY <2>2, <2>3
<1>15. /\ \A j \in Kind :
            /\ IsList(g.lists[j], g.mem, g.chains[j])
            /\ \A b \in FreeBlocks(g, j) : g.page_class[b[1]] = j
            /\ FreeBlocks(g, j) \cap U = {}
       /\ \A b \in U : g.page_class[b[1]] \in Kind
       /\ \A b \in U \cup AllFree(g) : g.page_class[b[1]] = LARGE => b[2] = 0
  BY <1>5, <1>9, <1>12, <1>13 DEF Sound
<1>16. Sound(g, U)
  BY <1>6, <1>14, <1>15 DEF Sound
<1> QED
  BY <1>5, <1>8, <1>9, <1>11, <1>16 DEF g

\* A page of class c takes at least one page of the region, and fits it with
\* no wrap.
LEMMA ClassFacts ==
    ASSUME NEW c \in Class
    PROVE  /\ PagesOf(c) \in Nat \ {0} /\ PagesOf(c) + PAGES < WRAP_PAGES
           /\ BlocksOf(c) \in Nat \ {0} /\ BlocksOf(c) <= SLOTS
           /\ ClassSizes[c] \in Nat \ {0}
<1>1. ClassSizes[c] \in Nat \ {0} /\ PAGE_SIZE \in Nat \ {0} /\ SLOTS \in Nat
  BY GeometryAssumption
<1> DEFINE s == ClassSizes[c]
<1> HIDE DEF s
<1>2. (s + PAGE_SIZE - 1) \div PAGE_SIZE \in Nat \ {0}
  BY <1>1 DEF s
<1>3. PagesOf(c) \in Nat \ {0}
  BY <1>2 DEF PagesOf, s
<1> QED
  BY <1>1, <1>3, GeometryAssumption

\* The blocks a page is cut into are distinct.
LEMMA RestFacts ==
    ASSUME NEW c \in Class, NEW p \in Page
    PROVE  /\ Rest(p, c) \in Seq(Address) /\ Injective(Rest(p, c))
           /\ ToSet(Rest(p, c)) = {<<p, i>> : i \in 1 .. BlocksOf(c)-1}
<1>1. BlocksOf(c) \in Nat /\ BlocksOf(c) <= SLOTS /\ SLOTS \in Nat
  BY ClassFacts, GeometryAssumption
<1>2. BlocksOf(c)-1 \in Nat
  BY ClassFacts
<1> DEFINE n == BlocksOf(c)-1
<1>3. \A i \in 1 .. n : <<p, i>> \in Address
  BY <1>1 DEF Address, Slot
<1> HIDE DEF n
<1>4. [i \in 1 .. n |-> <<p, i>>] \in Seq(Address)
  BY <1>2, <1>3 DEF n
<1>5. Rest(p, c) = [i \in 1 .. n |-> <<p, i>>]
  BY DEF Rest, n
<1> QED
  BY <1>4, <1>5 DEF ToSet, Injective, n

\* A list whose top is NULL is empty: free_list_pop fails on no other.
LEMMA EmptyTop ==
    ASSUME NEW h, NEW U, Sound(h, U), NEW k \in Kind, Top(h.lists[k]) = NULL
    PROVE  /\ h.lists[k] = EmptyList /\ h.chains[k] = <<>>
           /\ FreeBlocks(h, k) = {}
<1>1. /\ h.lists[k] \in List(Address) /\ h.chains[k] \in Seq(Address)
      /\ DOMAIN h.mem = Address /\ IsList(h.lists[k], h.mem, h.chains[k])
  BY FreeFacts DEF Sound
<1>2. FreeOf(h.lists[k], h.chains[k]) = {}
  BY <1>1, AddressFacts, PopIsList
<1>3. ToSet(h.lists[k].mag) = {} /\ ToSet(h.chains[k]) = {}
  BY <1>2 DEF FreeOf
<1>4. h.lists[k].mag \in Seq(Address)
  BY <1>1 DEF List
<1>5. h.lists[k].mag = <<>> /\ h.chains[k] = <<>>
  <2>1. \A s \in Seq(Address) : s # <<>> => s[1] \in ToSet(s)
    BY DEF ToSet
  <2> QED
    BY <1>1, <1>3, <1>4, <2>1
<1>6. h.lists[k].head = NULL
  BY <1>1, <1>5 DEF IsList
<1> QED
  BY <1>1, <1>2, <1>5, <1>6 DEF List, EmptyList, FreeBlocks

\* Carving a page of class c: its blocks are free but the first, which is in
\* use, bump_allocate_class.
LEMMA CarveSound ==
    ASSUME NEW h, NEW U, Sound(h, U), NEW c \in Class,
           Top(h.lists[c]) = NULL, BumpFits(h, PagesOf(c))
    PROVE  /\ Sound(Carve(h, c), U \cup {<<h.bump, 0>>})
           /\ Taken(h, Carve(h, c), PagesOf(c), c)
           /\ AllFree(Carve(h, c))
                = AllFree(h) \cup {<<h.bump, i>> : i \in 1 .. BlocksOf(c)-1}
           /\ Carve(h, c).total = h.total
           /\ \A a \in Address : a[1] # h.bump => Carve(h, c).mem[a] = h.mem[a]
           /\ \A b \in U \cup AllFree(h) : b \in Address /\ b[1] < h.bump
<1> DEFINE g0 == Bump(h, PagesOf(c), c)
           g == Carve(h, c)
           bs == Rest(h.bump, c)
           m == PushAllMem(EmptyList, h.mem, bs)
<1>1. c \in Kind /\ DOMAIN h.mem = Address
  BY KindFacts, FreeFacts
<1>2. h.lists[c] = EmptyList /\ h.chains[c] = <<>> /\ FreeBlocks(h, c) = {}
  BY <1>1, EmptyTop
<1>3. /\ Sound(g0, U) /\ Taken(h, g0, PagesOf(c), c)
      /\ g0.lists = h.lists /\ g0.chains = h.chains /\ g0.mem = h.mem
      /\ g0.total = h.total /\ AllFree(g0) = AllFree(h)
      /\ \A b \in U \cup AllFree(h) : b \in Address /\ b[1] < h.bump
  BY <1>1, ClassFacts, BumpSound
<1>4. /\ h.bump \in Page /\ g0.page_class[h.bump] = c
      /\ g0.bump = h.bump + PagesOf(c)
  <2>1. h.bump \in Page
    BY <1>3 DEF Taken
  <2>2. h.bump \in Nat /\ PagesOf(c) \in Nat \ {0}
    BY <2>1, ClassFacts DEF Page
  <2> QED
    BY <1>3, <2>1, <2>2 DEF Taken
<1>5. /\ bs \in Seq(Address) /\ Injective(bs)
      /\ ToSet(bs) = {<<h.bump, i>> : i \in 1 .. BlocksOf(c)-1}
  BY <1>4, RestFacts
<1> HIDE DEF bs
<1>6. /\ PushAll(EmptyList, bs) \in List(Address)
      /\ PushAllChain(EmptyList, <<>>, bs) \in Seq(Address)
      /\ IsList(PushAll(EmptyList, bs), m, PushAllChain(EmptyList, <<>>, bs))
      /\ FreeOf(PushAll(EmptyList, bs), PushAllChain(EmptyList, <<>>, bs))
           = ToSet(bs)
      /\ DOMAIN m = Address
      /\ \A a \in Address \ ToSet(bs) : m[a] = h.mem[a]
  BY <1>1, <1>5, AddressFacts, PushAllIsList
<1>7. m \in [Address -> Word]
  <2>1. h.mem \in [Address -> Word]
    BY DEF Sound, HeapType
  <2>2. \A i \in DOMAIN bs : bs[i] \in Address
    BY <1>5
  <2> SUFFICES ASSUME NEW a \in Address PROVE m[a] \in Word
    BY <1>1 DEF PushAllMem
  <2> DEFINE k == Fill(EmptyList, bs)
  <2>3. k \in 0 .. Len(bs) /\ Len(bs) \in Nat /\ DOMAIN bs = 1 .. Len(bs)
    BY <1>5, MagSizeAssumption DEF Fill, EmptyList
  <2> HIDE DEF k
  <2>4. CASE \E i \in k+1 .. Len(bs) : bs[i] = a
    <3> DEFINE i == CHOOSE i \in k+1 .. Len(bs) : bs[i] = a
    <3>1. i \in k+1 .. Len(bs)
      BY <2>4
    <3>2. m[a] = Link(IF i = k+1 THEN NULL ELSE bs[i-1])
      BY <1>1, <2>4 DEF PushAllMem, k, EmptyList
    <3> HIDE DEF i
    <3>3. i # k+1 => i-1 \in DOMAIN bs
      BY <2>3, <3>1
    <3> QED
      BY <2>2, <3>2, <3>3 DEF Word
  <2>5. CASE ~\E i \in k+1 .. Len(bs) : bs[i] = a
    <3>1. m[a] = h.mem[a]
      BY <1>1, <2>5 DEF PushAllMem, k
    <3> QED
      BY <2>1, <3>1
  <2> QED
    BY <2>4, <2>5
<1> HIDE DEF m
<1>8. g = [g0 EXCEPT !.lists  = [h.lists EXCEPT ![c] = PushAll(EmptyList, bs)],
                     !.mem    = m,
                     !.chains = [h.chains EXCEPT
                                    ![c] = PushAllChain(EmptyList, <<>>, bs)]]
  BY <1>2 DEF Carve, m, bs
<1> HIDE DEF g, g0
<1>9. g0 \in HeapType /\ h.lists \in [Kind -> List(Address)]
      /\ h.chains \in [Kind -> Seq(Address)]
  BY <1>3 DEF Sound, HeapType
<1>10. /\ g.bump = g0.bump /\ g.page_class = g0.page_class
       /\ g.total = h.total /\ g.mem = m
       /\ g.lists[c] = PushAll(EmptyList, bs)
       /\ g.chains[c] = PushAllChain(EmptyList, <<>>, bs)
       /\ \A j \in Kind \ {c} : g.lists[j] = h.lists[j] /\ g.chains[j] = h.chains[j]
  BY <1>1, <1>3, <1>8, <1>9 DEF HeapType
<1>11. g \in HeapType
  BY <1>1, <1>6, <1>7, <1>8, <1>9 DEF HeapType
<1>12. /\ FreeBlocks(g, c) = ToSet(bs)
       /\ \A j \in Kind \ {c} : FreeBlocks(g, j) = FreeBlocks(h, j)
  BY <1>6, <1>10 DEF FreeBlocks
<1>13. AllFree(g) = AllFree(h) \cup ToSet(bs)
  BY <1>1, <1>2, <1>12 DEF AllFree
<1>14. \A b \in ToSet(bs) \cup {<<h.bump, 0>>} :
           b \in Address /\ b[1] = h.bump /\ b \notin U \cup AllFree(h)
  <2>1. ToSet(bs) \subseteq Address
    BY <1>5 DEF ToSet
  <2>2. \A b \in ToSet(bs) \cup {<<h.bump, 0>>} : b \in Address /\ b[1] = h.bump
    BY <1>4, <1>5, <2>1, AddressFacts
  <2>3. h.bump \in Nat
    BY <1>4 DEF Page
  <2> QED
    BY <1>3, <2>2, <2>3
<1>15. <<h.bump, 0>> \notin ToSet(bs)
  BY <1>5
<1>16. \A j \in Kind : IsList(g.lists[j], g.mem, g.chains[j])
  <2> SUFFICES ASSUME NEW j \in Kind PROVE IsList(g.lists[j], g.mem, g.chains[j])
    OBVIOUS
  <2>1. CASE j = c
    BY <1>6, <1>10, <2>1
  <2>2. CASE j # c
    <3>1. IsList(h.lists[j], h.mem, h.chains[j])
      BY DEF Sound
    <3>2. \A a \in ToSet(h.chains[j]) : a \in Address /\ a \notin ToSet(bs)
      BY <1>14, FreeFacts DEF AllFree, FreeBlocks, FreeOf
    <3>3. \A a \in ToSet(h.chains[j]) : m[a] = h.mem[a]
      BY <1>6, <3>2
    <3>4. IsList(h.lists[j], m, h.chains[j])
      BY <3>1, <3>3, ListFrame
    <3> QED
      BY <1>10, <2>2, <3>4
  <2> QED
    BY <2>1, <2>2
<1>17. \A j \in Kind : /\ \A b \in FreeBlocks(g, j) : g.page_class[b[1]] = j
                       /\ FreeBlocks(g, j) \cap (U \cup {<<h.bump, 0>>}) = {}
  <2> SUFFICES ASSUME NEW j \in Kind
               PROVE  /\ \A b \in FreeBlocks(g, j) : g.page_class[b[1]] = j
                      /\ FreeBlocks(g, j) \cap (U \cup {<<h.bump, 0>>}) = {}
    OBVIOUS
  <2>1. CASE j = c
    BY <1>4, <1>10, <1>12, <1>14, <1>15, <2>1
  <2>2. CASE j # c
    <3>1. FreeBlocks(g, j) = FreeBlocks(h, j) /\ FreeBlocks(g0, j) = FreeBlocks(h, j)
      BY <1>3, <1>12, <2>2 DEF FreeBlocks
    <3>2. <<h.bump, 0>> \notin FreeBlocks(h, j)
      BY <1>14 DEF AllFree
    <3> QED
      BY <1>3, <1>10, <3>1, <3>2 DEF Sound
  <2> QED
    BY <2>1, <2>2
<1>18. /\ U \cup {<<h.bump, 0>>} \subseteq Address
       /\ \A b \in U \cup {<<h.bump, 0>>} : g.page_class[b[1]] \in Kind
  BY <1>1, <1>3, <1>4, <1>10, <1>14 DEF Sound
<1>19. \A b \in (U \cup {<<h.bump, 0>>}) \cup AllFree(g) :
           g.page_class[b[1]] = LARGE => b[2] = 0
  <2>1. \A b \in U \cup AllFree(h) : g.page_class[b[1]] = LARGE => b[2] = 0
    BY <1>3, <1>10 DEF Sound
  <2>2. \A b \in ToSet(bs) \cup {<<h.bump, 0>>} : g.page_class[b[1]] # LARGE
    BY <1>4, <1>10, <1>14, KindFacts
  <2> QED
    BY <1>13, <2>1, <2>2
<1>20. \A p \in Page : (p < g.bump) = (g.page_class[p] # UNASSIGNED)
  BY <1>3, <1>10 DEF Sound
<1>21. Sound(g, U \cup {<<h.bump, 0>>})
  BY <1>11, <1>16, <1>17, <1>18, <1>19, <1>20 DEF Sound
<1>22. Taken(h, g, PagesOf(c), c)
  BY <1>3, <1>10 DEF Taken
<1>23. \A a \in Address : a[1] # h.bump => g.mem[a] = h.mem[a]
  BY <1>6, <1>10, <1>14
<1> QED
  BY <1>3, <1>5, <1>10, <1>13, <1>21, <1>22, <1>23 DEF g

\* A new large block of n pages is in use, its header holds its size, and
\* nothing else changed.
LargeTaken(h, U, g, n, size) ==
    /\ Sound(g, U \cup {<<h.bump, 0>>})
    /\ Taken(h, g, n, LARGE)
    /\ AllFree(g) = AllFree(h)
    /\ g.page_class[h.bump] = LARGE
    /\ g.total[h.bump] = n
    /\ \A p \in Page : p # h.bump => g.total[p] = h.total[p]
    /\ g.mem[<<h.bump, 0>>] = Number(size)
    /\ \A a \in Address : a[1] # h.bump => g.mem[a] = h.mem[a]
    /\ \A b \in U \cup AllFree(h) : b \in Address /\ b[1] < h.bump

\* A large block is taken from the region, allocate_large.
LEMMA NewLargeSound ==
    ASSUME NEW h, NEW U, Sound(h, U), NEW n \in Nat \ {0}, NEW size \in Size,
           n + PAGES < WRAP_PAGES, BumpFits(h, n)
    PROVE  LargeTaken(h, U, NewLarge(h, n, size), n, size)
<1> DEFINE g0 == Bump(h, n, LARGE)
           b == <<h.bump, 0>>
           g1 == SetWord(g0, b, Number(size))
           g == NewLarge(h, n, size)
<1>1. /\ Sound(g0, U) /\ Taken(h, g0, n, LARGE)
      /\ g0.lists = h.lists /\ g0.chains = h.chains /\ g0.mem = h.mem
      /\ g0.total = h.total /\ AllFree(g0) = AllFree(h)
      /\ \A x \in U \cup AllFree(h) : x \in Address /\ x[1] < h.bump
  BY KindFacts, BumpSound
<1>2. h.bump \in Page /\ h.bump \in Nat /\ g0.page_class[h.bump] = LARGE
  BY <1>1 DEF Taken, Page
<1>3. b \in Address /\ b \notin AllFree(h) /\ b \notin U
  <2>1. b \in Address /\ b[1] = h.bump
    BY <1>2, AddressFacts
  <2>2. ~(b[1] < h.bump)
    BY <1>2, <2>1
  <2> QED
    BY <1>1, <2>1, <2>2
<1>4. Number(size) \in Word
  BY DEF Word
<1> HIDE DEF g0
<1>5. /\ Sound(g1, U) /\ AllFree(g1) = AllFree(h) /\ g1.bump = g0.bump
      /\ g1.page_class = g0.page_class /\ g1.total = h.total
      /\ g1.mem[b] = Number(size)
      /\ \A x \in Address \ {b} : g1.mem[x] = h.mem[x]
  BY <1>1, <1>3, <1>4, SetWordSound
<1>6. g = [g1 EXCEPT !.total = [h.total EXCEPT ![h.bump] = n]]
  BY DEF NewLarge, SetUserSize, g0
<1> HIDE DEF g1, g
<1>7. g1 \in HeapType /\ h.total \in [Page -> Nat]
  BY <1>5 DEF Sound, HeapType
<1>8. /\ g.bump = g1.bump /\ g.page_class = g1.page_class /\ g.mem = g1.mem
      /\ g.lists = g1.lists /\ g.chains = g1.chains
      /\ g.total = [h.total EXCEPT ![h.bump] = n]
  BY <1>6, <1>7 DEF HeapType
<1>9. g \in HeapType
  BY <1>6, <1>7 DEF HeapType
<1>10. AllFree(g) = AllFree(g1) /\ \A k \in Kind : FreeBlocks(g, k) = FreeBlocks(g1, k)
  BY <1>8 DEF AllFree, FreeBlocks
<1>11. g.page_class[b[1]] = LARGE
  BY <1>2, <1>5, <1>8
<1>12. \A k \in Kind : FreeBlocks(g, k) \cap (U \cup {b}) = {}
  BY <1>3, <1>5, <1>10 DEF Sound, AllFree
<1>13. /\ U \cup {b} \subseteq Address
       /\ \A x \in U \cup {b} : g.page_class[x[1]] \in Kind
       /\ \A x \in (U \cup {b}) \cup AllFree(g) : g.page_class[x[1]] = LARGE => x[2] = 0
       /\ \A p \in Page : (p < g.bump) = (g.page_class[p] # UNASSIGNED)
  BY <1>3, <1>5, <1>8, <1>10, <1>11, KindFacts DEF Sound
<1>14. \A k \in Kind : /\ IsList(g.lists[k], g.mem, g.chains[k])
                       /\ \A x \in FreeBlocks(g, k) : g.page_class[x[1]] = k
  BY <1>5, <1>8, <1>10 DEF Sound
<1>15. Sound(g, U \cup {b})
  BY <1>9, <1>12, <1>13, <1>14 DEF Sound
<1>16. Taken(h, g, n, LARGE)
  BY <1>1, <1>5, <1>8 DEF Taken
<1>17. g.total[h.bump] = n /\ \A p \in Page : p # h.bump => g.total[p] = h.total[p]
  BY <1>2, <1>7, <1>8
<1>18. \A a \in Address : a[1] # h.bump => g.mem[a] = h.mem[a]
  BY <1>5, <1>8
<1> QED
  BY <1>1, <1>5, <1>8, <1>10, <1>11, <1>15, <1>16, <1>17, <1>18
  DEF g, LargeTaken

-------------------------------------------------------------------------------
(* pool_allocate. *)

Same(h, g) == /\ g.bump = h.bump /\ g.page_class = h.page_class
              /\ g.total = h.total

\* The blocks of g, with V in use, are those of h, with U in use, or these and
\* the ones cut from the pages that were taken.
Regrown(h, U, g, V) ==
    \/ Same(h, g) /\ V \cup AllFree(g) = U \cup AllFree(h)
    \/ /\ Taken(h, g, SpanOf(g, h.bump), g.page_class[h.bump])
       /\ g.page_class[h.bump] \in Kind
       /\ \A p \in Page : p # h.bump => g.total[p] = h.total[p]
       /\ V \cup AllFree(g) = (U \cup AllFree(h))
              \cup {<<h.bump, i>> : i \in 0 .. CutInto(g, h.bump) - 1}

\* ptr was handed out for size.
HandedOut(h, U, g, ptr, size) ==
    /\ ptr \in Address /\ BlockAt(g, ptr) \in Address /\ BlockAt(g, ptr) \notin U
    /\ Sound(g, U \cup {BlockAt(g, ptr)})
    /\ Frame(h, g)
    /\ Regrown(h, U, g, U \cup {BlockAt(g, ptr)})
    /\ g.page_class[ptr[1]] = SizeClass(size) /\ SizeClass(size) \in Kind
    /\ SizeClass(size) = LARGE =>
         /\ ptr[2] = 1
         /\ g.mem[BlockAt(g, ptr)] = Number(size)
         /\ LargePages(size) <= g.total[ptr[1]]

\* No block was handed out.
Declined(h, U, g) == Sound(g, U) /\ Frame(h, g) /\ Regrown(h, U, g, U)

\* A step that takes no page and writes free blocks only.
LEMMA SameFrame ==
    ASSUME NEW h, NEW U, Sound(h, U), NEW g, Same(h, g),
           \A a \in Address \ AllFree(h) : g.mem[a] = h.mem[a]
    PROVE  Frame(h, g)
<1>1. h.bump \in 0 .. PAGES
  BY DEF Sound, HeapType
<1> QED
  BY <1>1 DEF Frame, Same

\* A step that takes pages, and writes there and in free blocks only.
LEMMA TakenFrame ==
    ASSUME NEW h, NEW U, Sound(h, U), NEW g, NEW n, NEW k, Taken(h, g, n, k),
           \A p \in Page : p # h.bump => g.total[p] = h.total[p],
           \A a \in Address \ AllFree(h) : a[1] # h.bump => g.mem[a] = h.mem[a]
    PROVE  Frame(h, g)
<1>1. h.bump \in Page /\ h.bump \in Nat /\ n \in Nat \ {0} /\ g.bump = h.bump + n
  BY DEF Taken, Page
<1>2. ASSUME NEW p \in Page, h.page_class[p] # UNASSIGNED
      PROVE  p # h.bump /\ ~(h.bump <= p)
  <2>1. p < h.bump /\ p \in Nat
    BY <1>2 DEF Sound, Page
  <2> QED
    BY <1>1, <2>1
<1>3. \A p \in Page : h.page_class[p] # UNASSIGNED =>
          g.page_class[p] = h.page_class[p] /\ g.total[p] = h.total[p]
  BY <1>2 DEF Taken
<1>4. \A a \in Address : h.page_class[a[1]] # UNASSIGNED /\ a \notin AllFree(h)
          => g.mem[a] = h.mem[a]
  BY <1>2, AddressFacts
<1> QED
  BY <1>1, <1>3, <1>4 DEF Frame

\* allocate of a size class: a free block of the class, or the first one of a
\* page carved for it.
LEMMA AllocateSmallSound ==
    ASSUME NEW h, NEW U, Sound(h, U), NEW size, NEW c \in Class,
           SizeClass(size) = c
    PROVE  LET r == AllocateSmall(h, c) IN
           IF r.ptr = NULL THEN r.heap = h
                           ELSE HandedOut(h, U, r.heap, r.ptr, size)
<1> DEFINE top == Top(h.lists[c])
           r == AllocateSmall(h, c)
<1>0. c \in Kind /\ c # LARGE
  BY KindFacts
<1>1. CASE top # NULL
  <2> DEFINE g == PopFrom(h, c)
  <2>1. r.heap = g /\ r.ptr = top
    BY <1>1 DEF AllocateSmall
  <2>2. /\ Sound(g, U \cup {top}) /\ top \in FreeBlocks(h, c)
        /\ AllFree(g) = AllFree(h) \ {top} /\ Same(h, g) /\ g.mem = h.mem
    BY <1>0, <1>1, PopSound DEF Same
  <2> HIDE DEF g
  <2>3. /\ top \in Address /\ top \in AllFree(h) /\ top \notin U
        /\ h.page_class[top[1]] = c
    BY <1>0, <2>2, FreeFacts DEF AllFree, Sound
  <2>4. g.page_class[top[1]] = c /\ BlockAt(g, top) = top
    BY <1>0, <2>2, <2>3 DEF Same, BlockAt
  <2>5. Frame(h, g)
    BY <2>2, SameFrame
  <2>6. Regrown(h, U, g, U \cup {top})
    BY <2>2, <2>3 DEF Regrown
  <2>7. HandedOut(h, U, g, top, size)
    BY <1>0, <2>2, <2>3, <2>4, <2>5, <2>6 DEF HandedOut
  <2>8. top # NULL
    BY <1>1
  <2> HIDE DEF top, r
  <2> QED
    BY <2>1, <2>7, <2>8 DEF r
<1>2. CASE top = NULL /\ BumpFits(h, PagesOf(c))
  <2> DEFINE g == Carve(h, c)
             b == <<h.bump, 0>>
  <2>1. r.heap = g /\ r.ptr = b
    BY <1>2 DEF AllocateSmall
  <2>2. /\ Sound(g, U \cup {b}) /\ Taken(h, g, PagesOf(c), c)
        /\ AllFree(g) = AllFree(h) \cup {<<h.bump, i>> : i \in 1 .. BlocksOf(c)-1}
        /\ g.total = h.total
        /\ \A a \in Address : a[1] # h.bump => g.mem[a] = h.mem[a]
        /\ \A x \in U \cup AllFree(h) : x \in Address /\ x[1] < h.bump
    BY <1>2, CarveSound
  <2> HIDE DEF g
  <2>3. /\ h.bump \in Page /\ h.bump \in Nat /\ PagesOf(c) \in Nat \ {0}
        /\ BlocksOf(c) \in Nat \ {0}
    BY <2>2, ClassFacts DEF Taken, Page
  <2>4. g.page_class[h.bump] = c
    BY <2>2, <2>3 DEF Taken
  <2>5. b \in Address /\ b[1] = h.bump /\ BlockAt(g, b) = b
    BY <1>0, <2>3, <2>4, AddressFacts DEF BlockAt
  <2>6. b \notin U
    BY <2>2, <2>3, <2>5
  <2>7. Frame(h, g)
    BY <2>2, TakenFrame
  <2>8. SpanOf(g, h.bump) = PagesOf(c) /\ CutInto(g, h.bump) = BlocksOf(c)
    BY <1>0, <2>4 DEF SpanOf, CutInto
  <2>9. {b} \cup {<<h.bump, i>> : i \in 1 .. BlocksOf(c)-1}
          = {<<h.bump, i>> : i \in 0 .. BlocksOf(c)-1}
    BY <2>3
  <2>10. Regrown(h, U, g, U \cup {b})
    BY <1>0, <2>2, <2>4, <2>8, <2>9 DEF Regrown
  <2>11. HandedOut(h, U, g, b, size)
    BY <1>0, <2>2, <2>4, <2>5, <2>6, <2>7, <2>10 DEF HandedOut
  <2>12. b # NULL
    BY <2>5, AddressFacts
  <2> HIDE DEF b, r
  <2> QED
    BY <2>1, <2>11, <2>12 DEF r
<1>3. CASE top = NULL /\ ~BumpFits(h, PagesOf(c))
  BY <1>3 DEF AllocateSmall
<1> QED
  BY <1>1, <1>2, <1>3

\* A call that changes nothing.
LEMMA NothingDone ==
    ASSUME NEW h, NEW U, Sound(h, U)
    PROVE  Declined(h, U, h)
<1>1. Same(h, h) /\ Frame(h, h)
  BY SameFrame DEF Same
<1> QED
  BY <1>1 DEF Declined, Regrown

\* A large block is put back: it is where it was, in the magazine or in the
\* chain, and the other blocks are untouched.
LEMMA PutBackSound ==
    ASSUME NEW h, NEW U, Sound(h, U)
    PROVE  /\ Sound(PutBack(h), U) /\ Same(h, PutBack(h))
           /\ AllFree(PutBack(h)) = AllFree(h)
           /\ \A a \in Address \ AllFree(h) : PutBack(h).mem[a] = h.mem[a]
<1> DEFINE top == Top(h.lists[LARGE])
           g0 == PopFrom(h, LARGE)
           g == PushTo(g0, LARGE, top)
<1>1. CASE top = NULL
  BY <1>1 DEF PutBack, Same
<1>2. CASE top # NULL
  <2>1. /\ Sound(g0, U \cup {top}) /\ top \in FreeBlocks(h, LARGE)
        /\ AllFree(g0) = AllFree(h) \ {top} /\ Same(h, g0) /\ g0.mem = h.mem
    BY <1>2, KindFacts, PopSound DEF Same
  <2>2. /\ top \notin U /\ h.page_class[top[1]] = LARGE
        /\ top \in AllFree(h) /\ top \in Address
    BY <2>1, KindFacts, FreeFacts DEF Sound, AllFree
  <2>3. g0.page_class[top[1]] = LARGE
    BY <2>1, <2>2 DEF Same
  <2> HIDE DEF g0
  <2>4. /\ Sound(g, (U \cup {top}) \ {top}) /\ AllFree(g) = AllFree(g0) \cup {top}
        /\ g.bump = g0.bump /\ g.page_class = g0.page_class /\ g.total = g0.total
        /\ \A a \in Address \ {top} : g.mem[a] = g0.mem[a]
    BY <2>1, <2>3, KindFacts, PushSound
  <2>5. (U \cup {top}) \ {top} = U
    BY <2>2
  <2>6. PutBack(h) = g
    BY <1>2 DEF PutBack, g0
  <2> HIDE DEF g, top
  <2>7. AllFree(g) = AllFree(h) /\ Same(h, g)
    BY <2>1, <2>2, <2>4 DEF Same
  <2>8. \A a \in Address \ AllFree(h) : g.mem[a] = h.mem[a]
    BY <2>1, <2>2, <2>4
  <2> QED
    BY <2>4, <2>5, <2>6, <2>7, <2>8
<1> QED
  BY <1>1, <1>2

\* A large request takes at least one page, and at most the pages that neither
\* wrap nor exceed the region together with it.
LEMMA LargePagesFacts ==
    ASSUME NoWrap, NEW size \in Size
    PROVE  /\ LargePages(size) \in Nat \ {0}
           /\ LargePages(size) < WRAP_PAGES => LargePages(size) + PAGES < WRAP_PAGES
<1>1. /\ size \in Nat /\ PAGE_SIZE \in Nat \ {0} /\ META_SIZE \in Nat \ {0}
      /\ PAGES \in Nat /\ WRAP_PAGES \in Nat
  BY SizeAssumption, GeometryAssumption
<1>2. (META_SIZE + size + PAGE_SIZE - 1) \div PAGE_SIZE \in Nat \ {0}
  BY <1>1
<1>3. LargePages(size) \in Nat \ {0}
  BY <1>2 DEF LargePages
<1> QED
  BY <1>1, <1>3 DEF NoWrap

\* allocate_large: the block on top of the list, or a new one.
LEMMA AllocateLargeSound ==
    ASSUME NoWrap, NEW h, NEW U, Sound(h, U), NEW size \in Size,
           SizeClass(size) = LARGE
    PROVE  LET r == AllocateLarge(h, size) IN
           IF r.ptr = NULL THEN Declined(h, U, r.heap)
                           ELSE HandedOut(h, U, r.heap, r.ptr, size)
<1> DEFINE n == LargePages(size)
           top == Top(h.lists[LARGE])
           kept == PutBack(h)
           r == AllocateLarge(h, size)
<1>1. n \in Nat \ {0} /\ (n < WRAP_PAGES => n + PAGES < WRAP_PAGES)
  BY LargePagesFacts
<1>2. LARGE \in Kind /\ Number(size) \in Word
  BY KindFacts DEF Word
<1>3. CASE n >= WRAP_PAGES
  <2>1. r.heap = h /\ r.ptr = NULL
    BY <1>3 DEF AllocateLarge
  <2> QED
    BY <2>1, NothingDone
<1>4. CASE ~(n >= WRAP_PAGES) /\ FreeLargeFits(h, n)
  <2> DEFINE g0 == PopFrom(h, LARGE)
             g == SetUserSize(g0, top, size)
             ptr == UserOf(top)
  <2>1. r.heap = g /\ r.ptr = ptr /\ top # NULL /\ h.total[top[1]] >= n
    BY <1>4 DEF AllocateLarge, FreeLargeFits
  <2>2. /\ Sound(g0, U \cup {top}) /\ top \in FreeBlocks(h, LARGE)
        /\ AllFree(g0) = AllFree(h) \ {top} /\ Same(h, g0) /\ g0.mem = h.mem
    BY <1>2, <2>1, PopSound DEF Same
  <2>3. /\ top \notin U /\ h.page_class[top[1]] = LARGE
        /\ top \in AllFree(h) /\ top \in Address
    BY <1>2, <2>2, FreeFacts DEF Sound, AllFree
  <2> HIDE DEF g0
  <2>4. /\ Sound(g, U \cup {top}) /\ AllFree(g) = AllFree(h) \ {top}
        /\ Same(g0, g) /\ g.mem[top] = Number(size)
        /\ \A a \in Address \ {top} : g.mem[a] = g0.mem[a]
    BY <1>2, <2>2, <2>3, SetWordSound DEF SetUserSize, Same
  <2> HIDE DEF g
  <2>5. Same(h, g)
    BY <2>2, <2>4 DEF Same
  <2>6. top[2] = 0 /\ top[1] \in Page /\ top = <<top[1], 0>>
    BY <2>3, AddressFacts DEF Sound
  <2>7. ptr \in Address /\ ptr[1] = top[1] /\ ptr[2] = 1
    BY <2>6, AddressFacts DEF UserOf
  <2>8. g.page_class[ptr[1]] = LARGE /\ BlockAt(g, ptr) = top
    BY <2>3, <2>5, <2>6, <2>7 DEF Same, BlockAt, BlockOf
  <2>9. Frame(h, g)
    <3>1. \A a \in Address \ AllFree(h) : g.mem[a] = h.mem[a]
      BY <2>2, <2>3, <2>4
    <3> QED
      BY <2>5, <3>1, SameFrame
  <2>10. Regrown(h, U, g, U \cup {top})
    BY <2>3, <2>4, <2>5 DEF Regrown
  <2>11. n <= g.total[ptr[1]]
    <3>1. h.total[top[1]] \in Nat
      BY <2>6 DEF Sound, HeapType
    <3> QED
      BY <1>1, <2>1, <2>5, <2>7, <3>1 DEF Same
  <2>12. HandedOut(h, U, g, ptr, size)
    BY <1>2, <2>3, <2>4, <2>7, <2>8, <2>9, <2>10, <2>11 DEF HandedOut
  <2>13. ptr # NULL
    BY <2>7, AddressFacts
  <2> HIDE DEF ptr, r
  <2> QED
    BY <2>1, <2>12, <2>13 DEF r
<1>5. /\ Sound(kept, U) /\ Same(h, kept) /\ AllFree(kept) = AllFree(h)
      /\ \A a \in Address \ AllFree(h) : kept.mem[a] = h.mem[a]
  BY PutBackSound
<1>6. CASE ~(n >= WRAP_PAGES) /\ ~FreeLargeFits(h, n) /\ BumpFits(kept, n)
  <2> DEFINE g == NewLarge(kept, n, size)
             b == <<kept.bump, 0>>
             ptr == UserOf(b)
  <2>1. r.heap = g /\ r.ptr = ptr
    BY <1>6 DEF AllocateLarge
  <2>2. n + PAGES < WRAP_PAGES
    BY <1>1, <1>6, GeometryAssumption
  <2> HIDE DEF kept, n
  <2>14. Sound(kept, U) /\ n \in Nat \ {0} /\ BumpFits(kept, n)
    BY <1>1, <1>5, <1>6
  <2>3. /\ Sound(g, U \cup {b}) /\ Taken(kept, g, n, LARGE)
        /\ AllFree(g) = AllFree(kept) /\ g.page_class[kept.bump] = LARGE
        /\ g.total[kept.bump] = n
        /\ \A p \in Page : p # kept.bump => g.total[p] = kept.total[p]
        /\ g.mem[b] = Number(size)
        /\ \A a \in Address : a[1] # kept.bump => g.mem[a] = kept.mem[a]
        /\ \A x \in U \cup AllFree(kept) : x \in Address /\ x[1] < kept.bump
    <3>1. LargeTaken(kept, U, g, n, size)
      BY <2>14, <2>2, NewLargeSound
    <3> HIDE DEF g
    <3> QED
      BY <3>1 DEF LargeTaken
  <2> HIDE DEF g
  <2>4. h.bump = kept.bump /\ h.page_class = kept.page_class /\ h.total = kept.total
    BY <1>5 DEF Same
  <2>5. kept.bump \in Page /\ kept.bump \in Nat
    BY <2>3 DEF Taken, Page
  <2>6. /\ b \in Address /\ b[1] = kept.bump /\ ptr \in Address
        /\ ptr[1] = kept.bump /\ ptr[2] = 1 /\ BlockOf(ptr) = b
    BY <2>5, AddressFacts DEF UserOf, BlockOf
  <2>7. b \notin U /\ BlockAt(g, ptr) = b
    BY <2>3, <2>5, <2>6 DEF BlockAt
  <2>8. Taken(h, g, n, LARGE)
    BY <2>3, <2>4 DEF Taken
  <2>9. Frame(h, g)
    <3>1. \A a \in Address \ AllFree(h) : a[1] # h.bump => g.mem[a] = h.mem[a]
      BY <1>5, <2>3, <2>4
    <3>2. \A p \in Page : p # h.bump => g.total[p] = h.total[p]
      BY <2>3, <2>4
    <3> QED
      BY <2>8, <3>1, <3>2, TakenFrame
  <2>10. Regrown(h, U, g, U \cup {b})
    <3>1. SpanOf(g, h.bump) = n /\ CutInto(g, h.bump) = 1
      BY <2>3, <2>4 DEF SpanOf, CutInto
    <3>2. {<<h.bump, i>> : i \in 0 .. 1 - 1} = {b}
      BY <2>4
    <3>3. (U \cup {b}) \cup AllFree(g) = (U \cup AllFree(h)) \cup {b}
      BY <1>5, <2>3
    <3> QED
      BY <1>2, <2>3, <2>4, <2>8, <3>1, <3>2, <3>3 DEF Regrown
  <2>11. HandedOut(h, U, g, ptr, size)
    <3>1. LargePages(size) <= g.total[ptr[1]]
      BY <2>14, <2>3, <2>6 DEF n
    <3>2. ptr[2] = 1 /\ g.page_class[ptr[1]] = LARGE /\ g.mem[BlockAt(g, ptr)] = Number(size)
      BY <2>3, <2>6, <2>7
    <3> HIDE DEF ptr, b
    <3> QED
      BY <1>2, <2>3, <2>6, <2>7, <2>9, <2>10, <3>1, <3>2 DEF HandedOut
  <2>12. ptr # NULL
    BY <2>6, AddressFacts
  <2> HIDE DEF ptr, r
  <2> QED
    BY <2>1, <2>11, <2>12 DEF r
<1>7. CASE ~(n >= WRAP_PAGES) /\ ~FreeLargeFits(h, n) /\ ~BumpFits(kept, n)
  <2>1. r.heap = kept /\ r.ptr = NULL
    BY <1>7 DEF AllocateLarge
  <2>2. Frame(h, kept)
    BY <1>5, SameFrame
  <2>3. Declined(h, U, kept)
    BY <1>5, <2>2 DEF Declined, Regrown
  <2> QED
    BY <2>1, <2>3
<1> QED
  BY <1>3, <1>4, <1>6, <1>7

\* pool_allocate, of any size.
LEMMA AllocateSound ==
    ASSUME NoWrap, NEW h, NEW U, Sound(h, U), NEW size \in Size
    PROVE  LET r == PoolAllocate(h, size) IN
           IF r.ptr = NULL THEN Declined(h, U, r.heap)
                           ELSE HandedOut(h, U, r.heap, r.ptr, size)
<1>1. CASE size = 0
  BY <1>1, NothingDone DEF PoolAllocate
<1>2. CASE size # 0 /\ SizeClass(size) = LARGE
  BY <1>2, AllocateLargeSound DEF PoolAllocate
<1>3. CASE size # 0 /\ SizeClass(size) # LARGE
  <2>1. SizeClass(size) \in Class
    BY <1>3, SizeAssumption
  <2> DEFINE r == AllocateSmall(h, SizeClass(size))
  <2>2. IF r.ptr = NULL THEN r.heap = h ELSE HandedOut(h, U, r.heap, r.ptr, size)
    BY <2>1, AllocateSmallSound
  <2>3. PoolAllocate(h, size) = r
    BY <1>3 DEF PoolAllocate
  <2> HIDE DEF r
  <2>4. IF r.ptr = NULL THEN Declined(h, U, r.heap)
                        ELSE HandedOut(h, U, r.heap, r.ptr, size)
    BY <2>2, NothingDone
  <2> QED
    BY <2>3, <2>4
<1> QED
  BY <1>1, <1>2, <1>3

-------------------------------------------------------------------------------
(* pool_free. *)

\* The block of a pointer goes back to the list of its class.
LEMMA FreeSound ==
    ASSUME NEW h, NEW U, Sound(h, U), NEW ptr \in Address, BlockAt(h, ptr) \in U
    PROVE  /\ Sound(PoolFree(h, ptr), U \ {BlockAt(h, ptr)})
           /\ AllFree(PoolFree(h, ptr)) = AllFree(h) \cup {BlockAt(h, ptr)}
           /\ Same(h, PoolFree(h, ptr))
           /\ \A a \in Address \ {BlockAt(h, ptr)} :
                  PoolFree(h, ptr).mem[a] = h.mem[a]
<1> DEFINE k == h.page_class[ptr[1]]
           b == BlockAt(h, ptr)
           g == PoolFree(h, ptr)
<1>1. b[1] = ptr[1] /\ b \in Address /\ k \in Kind /\ b \notin AllFree(h)
  <2>1. b[1] = ptr[1] /\ b \in Address
    BY AddressFacts DEF BlockAt, BlockOf
  <2>2. h.page_class[b[1]] \in Kind
    BY DEF Sound
  <2>3. b \notin AllFree(h)
    BY DEF Sound, AllFree
  <2> QED
    BY <2>1, <2>2, <2>3
<1>2. CASE k \in Class
  <2>1. b = ptr
    BY <1>2, KindFacts DEF BlockAt
  <2>2. g = PushTo(h, k, b)
    BY <1>2, <2>1 DEF PoolFree
  <2> HIDE DEF b, g
  <2>3. /\ Sound(g, U \ {b}) /\ AllFree(g) = AllFree(h) \cup {b}
        /\ g.bump = h.bump /\ g.page_class = h.page_class /\ g.total = h.total
        /\ \A a \in Address \ {b} : g.mem[a] = h.mem[a]
    BY <1>1, <2>2, PushSound DEF b
  <2> QED
    BY <2>3 DEF Same, b, g
<1>3. CASE k = LARGE
  <2> DEFINE g0 == SetUserSize(h, b, 0)
  <2>1. b = BlockOf(ptr)
    BY <1>3 DEF BlockAt
  <2>2. g = PushTo(g0, LARGE, b)
    BY <1>3, <2>1, KindFacts DEF PoolFree
  <2>3. Number(0) \in Word
    BY DEF Word
  <2> HIDE DEF b, g
  <2>4. /\ Sound(g0, U) /\ AllFree(g0) = AllFree(h) /\ g0.bump = h.bump
        /\ g0.page_class = h.page_class /\ g0.total = h.total
        /\ \A a \in Address \ {b} : g0.mem[a] = h.mem[a]
    BY <1>1, <2>3, SetWordSound DEF SetUserSize
  <2>5. b \in U /\ g0.page_class[b[1]] = LARGE
    BY <1>1, <1>3, <2>4 DEF b
  <2> HIDE DEF g0
  <2>6. /\ Sound(g, U \ {b}) /\ AllFree(g) = AllFree(g0) \cup {b}
        /\ g.bump = g0.bump /\ g.page_class = g0.page_class /\ g.total = g0.total
        /\ \A a \in Address \ {b} : g.mem[a] = g0.mem[a]
    BY <2>2, <2>4, <2>5, KindFacts, PushSound
  <2>7. \A a \in Address \ {b} : g.mem[a] = h.mem[a]
    BY <2>4, <2>6
  <2> QED
    BY <2>4, <2>6, <2>7 DEF Same, b, g
<1> QED
  BY <1>1, <1>2, <1>3 DEF Kind

-------------------------------------------------------------------------------
(***************************************************************************)
(* The heap and the program.  hd is the size asked for at each pointer, ct *)
(* the word expected there.                                                *)
(***************************************************************************)
InUse(hd) == {a \in Address : hd[a] > 0}

UsedBlocks(h, hd) == {BlockAt(h, a) : a \in InUse(hd)}

\* Every pointer in use is of the class of its size, has its own content, and
\* behind its header if it is large.
Owned(h, hd, ct) ==
    /\ hd \in [Address -> Size] /\ ct \in [Address -> Word]
    /\ Sound(h, UsedBlocks(h, hd))
    /\ \A a \in InUse(hd) :
          /\ h.page_class[a[1]] = SizeClass(hd[a])
          /\ h.mem[a] = ct[a]
          /\ h.page_class[a[1]] = LARGE =>
               /\ a[2] = 1 /\ h.mem[BlockOf(a)] = Number(hd[a])
               /\ LargePages(hd[a]) <= h.total[a[1]]

\* A pointer in use and its block are assigned and not free, and two pointers
\* have two blocks.
LEMMA InUseFacts ==
    ASSUME NEW h, NEW hd, NEW ct, Owned(h, hd, ct)
    PROVE  /\ \A a \in InUse(hd) :
                 /\ a \in Address /\ h.page_class[a[1]] \in Kind
                 /\ BlockAt(h, a) \in UsedBlocks(h, hd)
                 /\ BlockAt(h, a) \in Address /\ BlockAt(h, a)[1] = a[1]
                 /\ a \notin AllFree(h) /\ BlockAt(h, a) \notin AllFree(h)
           /\ \A a, b \in InUse(hd) : BlockAt(h, a) = BlockAt(h, b) => a = b
           /\ \A a, b \in InUse(hd) : BlockAt(h, a) = b => a = b
<1>1. \A a \in InUse(hd) : a \in Address /\ BlockAt(h, a) \in UsedBlocks(h, hd)
  BY DEF InUse, UsedBlocks
<1>2. \A a \in InUse(hd) : /\ BlockAt(h, a)[1] = a[1] /\ BlockAt(h, a) \in Address
                           /\ BlockAt(h, a) = a \/ h.page_class[a[1]] = LARGE
  BY <1>1, AddressFacts DEF BlockAt, BlockOf
<1>3. /\ \A b \in UsedBlocks(h, hd) : h.page_class[b[1]] \in Kind /\ b \notin AllFree(h)
      /\ \A b \in AllFree(h) : h.page_class[b[1]] = LARGE => b[2] = 0
  BY DEF Owned, Sound, AllFree
<1>4. \A a \in InUse(hd) : h.page_class[a[1]] \in Kind /\ BlockAt(h, a) \notin AllFree(h)
  BY <1>1, <1>2, <1>3
<1>5. \A a \in InUse(hd) : h.page_class[a[1]] = LARGE =>
          a[2] = 1 /\ BlockAt(h, a) = <<a[1], 0>>
  BY DEF Owned, BlockAt, BlockOf
<1>6. \A a \in InUse(hd) : a \notin AllFree(h)
  BY <1>2, <1>3, <1>4, <1>5
<1>7. \A a, b \in InUse(hd) : BlockAt(h, a) = BlockAt(h, b) => a = b
  <2> SUFFICES ASSUME NEW a \in InUse(hd), NEW b \in InUse(hd),
                      BlockAt(h, a) = BlockAt(h, b)
               PROVE  a = b
    OBVIOUS
  <2>1. a[1] = b[1]
    BY <1>2
  <2>2. CASE h.page_class[a[1]] = LARGE
    <3>1. a[2] = b[2]
      BY <1>5, <2>1, <2>2
    <3> QED
      BY <1>1, <2>1, <3>1, AddressFacts
  <2>3. CASE h.page_class[a[1]] # LARGE
    BY <1>2, <2>1, <2>3
  <2> QED
    BY <2>2, <2>3
<1>8. \A a, b \in InUse(hd) : BlockAt(h, a) = b => a = b
  <2> SUFFICES ASSUME NEW a \in InUse(hd), NEW b \in InUse(hd), BlockAt(h, a) = b
               PROVE  a = b
    OBVIOUS
  <2>1. b[1] = a[1]
    BY <1>2
  <2>2. CASE h.page_class[a[1]] = LARGE
    <3>1. b[2] = 1 /\ b = <<a[1], 0>>
      BY <1>5, <2>1, <2>2
    <3> QED
      BY <3>1
  <2>3. CASE h.page_class[a[1]] # LARGE
    BY <1>2, <2>3
  <2> QED
    BY <2>2, <2>3
<1> QED
  BY <1>1, <1>2, <1>4, <1>6, <1>7, <1>8

\* What a pointer in use relies on.
Relies(h, a, size, word) ==
    /\ h.page_class[a[1]] = SizeClass(size)
    /\ h.mem[a] = word
    /\ h.page_class[a[1]] = LARGE =>
         /\ a[2] = 1 /\ h.mem[BlockOf(a)] = Number(size)
         /\ LargePages(size) <= h.total[a[1]]

\* No call disturbs the pointers in use.
LEMMA FrameOwned ==
    ASSUME NEW h, NEW hd, NEW ct, Owned(h, hd, ct), NEW g, Frame(h, g)
    PROVE  /\ UsedBlocks(g, hd) = UsedBlocks(h, hd)
           /\ \A a \in InUse(hd) : /\ BlockAt(g, a) = BlockAt(h, a)
                                   /\ Relies(g, a, hd[a], ct[a])
<1>1. ASSUME NEW a \in InUse(hd)
      PROVE  /\ g.page_class[a[1]] = h.page_class[a[1]]
             /\ g.total[a[1]] = h.total[a[1]] /\ g.mem[a] = h.mem[a]
             /\ g.mem[BlockAt(h, a)] = h.mem[BlockAt(h, a)]
  <2>1. /\ a \in Address /\ a[1] \in Page /\ h.page_class[a[1]] \in Kind
        /\ a \notin AllFree(h) /\ BlockAt(h, a) \notin AllFree(h)
        /\ BlockAt(h, a) \in Address /\ BlockAt(h, a)[1] = a[1]
    BY InUseFacts, AddressFacts
  <2>2. h.page_class[a[1]] # UNASSIGNED
    BY <2>1, KindFacts
  <2> QED
    BY <2>1, <2>2 DEF Frame
<1>2. \A a \in InUse(hd) : BlockAt(g, a) = BlockAt(h, a)
  BY <1>1 DEF BlockAt
<1>3. UsedBlocks(g, hd) = UsedBlocks(h, hd)
  BY <1>2 DEF UsedBlocks
<1>4. \A a \in InUse(hd) : Relies(h, a, hd[a], ct[a])
  BY DEF Owned, Relies
<1>5. ASSUME NEW a \in InUse(hd) PROVE Relies(g, a, hd[a], ct[a])
  <2>1. Relies(h, a, hd[a], ct[a])
    BY <1>4
  <2>2. h.page_class[a[1]] = LARGE => g.mem[BlockOf(a)] = h.mem[BlockOf(a)]
    BY <1>1 DEF BlockAt
  <2> QED
    BY <1>1, <2>1, <2>2 DEF Relies
<1> QED
  BY <1>2, <1>3, <1>5

\* An allocation that is refused changes nothing for the program.
LEMMA DeclinedOwned ==
    ASSUME NEW h, NEW hd, NEW ct, Owned(h, hd, ct), NEW g,
           Declined(h, UsedBlocks(h, hd), g)
    PROVE  Owned(g, hd, ct)
<1>1. /\ UsedBlocks(g, hd) = UsedBlocks(h, hd)
      /\ \A a \in InUse(hd) : Relies(g, a, hd[a], ct[a])
  BY FrameOwned DEF Declined
<1>2. Sound(g, UsedBlocks(g, hd)) /\ hd \in [Address -> Size] /\ ct \in [Address -> Word]
  BY <1>1 DEF Declined, Owned
<1> QED
  BY <1>1, <1>2 DEF Owned, Relies

\* An allocation hands out a pointer that was not in use.
LEMMA HandedOutOwned ==
    ASSUME NEW h, NEW hd, NEW ct, Owned(h, hd, ct), NEW g, NEW ptr,
           NEW size \in Size, size > 0,
           HandedOut(h, UsedBlocks(h, hd), g, ptr, size)
    PROVE  /\ Owned(g, [hd EXCEPT ![ptr] = size], [ct EXCEPT ![ptr] = g.mem[ptr]])
           /\ ptr \in Address /\ hd[ptr] = 0 /\ ptr \notin InUse(hd)
<1> DEFINE hd2 == [hd EXCEPT ![ptr] = size]
           ct2 == [ct EXCEPT ![ptr] = g.mem[ptr]]
           U == UsedBlocks(h, hd)
           b == BlockAt(g, ptr)
<1>1. /\ ptr \in Address /\ b \notin U /\ Sound(g, U \cup {b}) /\ Frame(h, g)
      /\ g.page_class[ptr[1]] = SizeClass(size)
      /\ SizeClass(size) = LARGE =>
           /\ ptr[2] = 1 /\ g.mem[b] = Number(size)
           /\ LargePages(size) <= g.total[ptr[1]]
  BY DEF HandedOut
<1>2. /\ UsedBlocks(g, hd) = U
      /\ \A a \in InUse(hd) : BlockAt(g, a) \in U /\ Relies(g, a, hd[a], ct[a])
  BY <1>1, FrameOwned, InUseFacts
<1>3. ptr \notin InUse(hd)
  BY <1>1, <1>2
<1>4. hd \in [Address -> Size] /\ ct \in [Address -> Word] /\ g.mem \in [Address -> Word]
  BY <1>1 DEF Owned, Sound, HeapType
<1>5. \A a \in Address : hd[a] \in Nat
  BY <1>4, SizeAssumption
<1>6. hd[ptr] = 0
  BY <1>1, <1>3, <1>5 DEF InUse
<1>7. /\ hd2 \in [Address -> Size] /\ ct2 \in [Address -> Word]
      /\ hd2[ptr] = size /\ ct2[ptr] = g.mem[ptr]
      /\ \A a \in Address : a # ptr => hd2[a] = hd[a] /\ ct2[a] = ct[a]
  BY <1>1, <1>4
<1> HIDE DEF hd2, ct2, U, b
<1>8. InUse(hd2) = InUse(hd) \cup {ptr}
  BY <1>1, <1>3, <1>7 DEF InUse
<1>9. UsedBlocks(g, hd2) = U \cup {b}
  BY <1>2, <1>8 DEF UsedBlocks, b
<1>10. Relies(g, ptr, size, g.mem[ptr])
  BY <1>1 DEF Relies, b, BlockAt
<1>11. \A a \in InUse(hd2) : Relies(g, a, hd2[a], ct2[a])
  <2>1. \A a \in InUse(hd) : a \in Address /\ a # ptr
    BY <1>3 DEF InUse
  <2> QED
    BY <1>2, <1>7, <1>8, <1>10, <2>1
<1>12. Owned(g, hd2, ct2)
  BY <1>1, <1>7, <1>9, <1>11 DEF Owned, Relies
<1> QED
  BY <1>1, <1>3, <1>6, <1>12 DEF hd2, ct2

\* A block is given back: the other pointers keep their content.
LEMMA FreeOwned ==
    ASSUME NEW h, NEW hd, NEW ct, Owned(h, hd, ct), NEW ptr \in InUse(hd)
    PROVE  /\ Owned(PoolFree(h, ptr), [hd EXCEPT ![ptr] = 0],
                    [ct EXCEPT ![ptr] = NoContent])
           /\ Same(h, PoolFree(h, ptr))
           /\ InUse([hd EXCEPT ![ptr] = 0]) = InUse(hd) \ {ptr}
           /\ UsedBlocks(PoolFree(h, ptr), [hd EXCEPT ![ptr] = 0])
                \cup AllFree(PoolFree(h, ptr))
              = UsedBlocks(h, hd) \cup AllFree(h)
<1> DEFINE hd2 == [hd EXCEPT ![ptr] = 0]
           ct2 == [ct EXCEPT ![ptr] = NoContent]
           U == UsedBlocks(h, hd)
           b == BlockAt(h, ptr)
           g == PoolFree(h, ptr)
<1>1. ptr \in Address /\ b \in U /\ Sound(h, U)
  BY InUseFacts DEF Owned
<1>2. /\ Sound(g, U \ {b}) /\ AllFree(g) = AllFree(h) \cup {b}
      /\ Same(h, g) /\ \A a \in Address \ {b} : g.mem[a] = h.mem[a]
  BY <1>1, FreeSound
<1>3. /\ \A a \in InUse(hd) : /\ a \in Address /\ BlockAt(h, a) \in Address
                              /\ BlockAt(h, a) = b => a = ptr
                              /\ a = b => a = ptr
  BY InUseFacts
<1>4. /\ hd2 \in [Address -> Size] /\ ct2 \in [Address -> Word] /\ hd2[ptr] = 0
      /\ \A a \in Address : a # ptr => hd2[a] = hd[a] /\ ct2[a] = ct[a]
  <2>1. NoContent \in Word
    BY DEF Word, NoContent
  <2> QED
    BY <1>1, <2>1, SizeAssumption DEF Owned
<1> HIDE DEF hd2, ct2, U, b, g
<1>5. InUse(hd2) = InUse(hd) \ {ptr}
  BY <1>1, <1>4 DEF InUse
<1>6. \A a \in InUse(hd) : BlockAt(g, a) = BlockAt(h, a)
  BY <1>2 DEF BlockAt, Same
<1>7. UsedBlocks(g, hd2) = U \ {b}
  BY <1>3, <1>5, <1>6 DEF UsedBlocks, U, b
<1>8. ASSUME NEW a \in InUse(hd2) PROVE Relies(g, a, hd2[a], ct2[a])
  <2>1. a \in InUse(hd) /\ a # ptr /\ a \in Address
    BY <1>3, <1>5
  <2>2. Relies(h, a, hd[a], ct[a])
    BY <2>1 DEF Owned, Relies
  <2>3. g.mem[a] = h.mem[a] /\ g.mem[BlockAt(h, a)] = h.mem[BlockAt(h, a)]
    BY <1>2, <1>3, <2>1
  <2>4. h.page_class[a[1]] = LARGE => g.mem[BlockOf(a)] = h.mem[BlockOf(a)]
    BY <2>3 DEF BlockAt
  <2> QED
    BY <1>2, <1>4, <2>1, <2>2, <2>3, <2>4 DEF Relies, Same
<1>9. Owned(g, hd2, ct2)
  BY <1>2, <1>4, <1>7, <1>8 DEF Owned, Relies
<1>10. UsedBlocks(g, hd2) \cup AllFree(g) = U \cup AllFree(h)
  BY <1>1, <1>2, <1>7
<1> QED
  BY <1>2, <1>5, <1>9, <1>10 DEF hd2, ct2, U, g

\* The program writes in a block it holds.
LEMMA WriteOwned ==
    ASSUME NEW h, NEW hd, NEW ct, Owned(h, hd, ct), NEW ptr \in InUse(hd),
           NEW word \in Word
    PROVE  /\ Owned(SetWord(h, ptr, word), hd, [ct EXCEPT ![ptr] = word])
           /\ Same(h, SetWord(h, ptr, word))
           /\ UsedBlocks(SetWord(h, ptr, word), hd) = UsedBlocks(h, hd)
           /\ AllFree(SetWord(h, ptr, word)) = AllFree(h)
<1> DEFINE ct2 == [ct EXCEPT ![ptr] = word]
           U == UsedBlocks(h, hd)
           g == SetWord(h, ptr, word)
<1>1. ptr \in Address /\ ptr \notin AllFree(h) /\ Sound(h, U)
  BY InUseFacts DEF Owned
<1>2. /\ Sound(g, U) /\ AllFree(g) = AllFree(h) /\ Same(h, g) /\ g.mem[ptr] = word
      /\ \A a \in Address \ {ptr} : g.mem[a] = h.mem[a]
  BY <1>1, SetWordSound DEF Same
<1>3. /\ ct2 \in [Address -> Word] /\ ct2[ptr] = word
      /\ \A a \in Address : a # ptr => ct2[a] = ct[a]
  BY <1>1 DEF Owned
<1>4. hd \in [Address -> Size]
  BY DEF Owned
<1> HIDE DEF ct2, U, g
<1>5. UsedBlocks(g, hd) = U
  BY <1>2 DEF UsedBlocks, U, BlockAt, Same
<1>6. ASSUME NEW a \in InUse(hd) PROVE Relies(g, a, hd[a], ct2[a])
  <2>1. Relies(h, a, hd[a], ct[a]) /\ a \in Address
    BY DEF Owned, Relies, InUse
  <2>2. g.mem[a] = ct2[a]
    BY <1>2, <1>3, <2>1 DEF Relies
  <2>3. h.page_class[a[1]] = LARGE => g.mem[BlockOf(a)] = h.mem[BlockOf(a)]
    <3> SUFFICES ASSUME h.page_class[a[1]] = LARGE
                 PROVE  g.mem[BlockOf(a)] = h.mem[BlockOf(a)]
      OBVIOUS
    <3>1. BlockAt(h, a) = BlockOf(a) /\ BlockOf(a)[2] = 0 /\ a[2] = 1
      BY <2>1 DEF BlockAt, BlockOf, Relies
    <3>2. BlockOf(a) \in Address /\ BlockOf(a) # ptr
      BY <3>1, InUseFacts
    <3> QED
      BY <1>2, <3>2
  <2> QED
    BY <1>2, <2>1, <2>2, <2>3 DEF Relies, Same
<1>7. Owned(g, hd, ct2)
  BY <1>2, <1>3, <1>4, <1>5, <1>6 DEF Owned, Relies
<1> QED
  BY <1>2, <1>5, <1>7 DEF ct2, U, g

\* A large block is resized in place: only its header changes.
LEMMA InPlaceOwned ==
    ASSUME NEW h, NEW hd, NEW ct, Owned(h, hd, ct), NEW ptr \in InUse(hd),
           NEW size \in Size, size > 0, SizeClass(size) = LARGE,
           h.page_class[ptr[1]] = LARGE, LargePages(size) <= h.total[ptr[1]]
    PROVE  /\ Owned(SetUserSize(h, BlockOf(ptr), size),
                    [hd EXCEPT ![ptr] = size], ct)
           /\ Same(h, SetUserSize(h, BlockOf(ptr), size))
           /\ InUse([hd EXCEPT ![ptr] = size]) = InUse(hd)
           /\ UsedBlocks(SetUserSize(h, BlockOf(ptr), size),
                         [hd EXCEPT ![ptr] = size]) = UsedBlocks(h, hd)
           /\ AllFree(SetUserSize(h, BlockOf(ptr), size)) = AllFree(h)
<1> DEFINE hd2 == [hd EXCEPT ![ptr] = size]
           U == UsedBlocks(h, hd)
           b == BlockOf(ptr)
           g == SetUserSize(h, b, size)
<1>1. /\ b = BlockAt(h, ptr) /\ b \in Address /\ b \notin AllFree(h)
      /\ Sound(h, U) /\ Number(size) \in Word /\ ptr \in Address
  BY InUseFacts DEF Owned, BlockAt, Word
<1>2. /\ Sound(g, U) /\ AllFree(g) = AllFree(h) /\ Same(h, g)
      /\ g.mem[b] = Number(size)
      /\ \A a \in Address \ {b} : g.mem[a] = h.mem[a]
  BY <1>1, SetWordSound DEF Same, SetUserSize
<1>3. /\ hd2 \in [Address -> Size] /\ hd2[ptr] = size
      /\ \A a \in Address : a # ptr => hd2[a] = hd[a]
      /\ ct \in [Address -> Word]
  BY <1>1 DEF Owned
<1> HIDE DEF hd2, U, g
<1>4. InUse(hd2) = InUse(hd)
  BY <1>1, <1>3 DEF InUse
<1>5. UsedBlocks(g, hd2) = U
  BY <1>2, <1>4 DEF UsedBlocks, U, BlockAt, Same
<1>6. ASSUME NEW a \in InUse(hd) PROVE Relies(g, a, hd2[a], ct[a])
  <2>1. Relies(h, a, hd[a], ct[a]) /\ a \in Address
    BY DEF Owned, Relies, InUse
  <2>2. a # b /\ (BlockAt(h, a) = b => a = ptr) /\ BlockAt(h, a) \in Address
    <3>1. b[2] = 0 /\ b[1] = ptr[1]
      BY DEF BlockOf
    <3>2. ASSUME a = b PROVE FALSE
      <4>1. a[1] = ptr[1] /\ a[2] = 0
        BY <3>1, <3>2
      <4> QED
        BY <2>1, <4>1 DEF Relies
    <3> QED
      BY <1>1, <3>2, InUseFacts
  <2>3. g.mem[a] = ct[a]
    BY <1>2, <2>1, <2>2 DEF Relies
  <2>4. CASE a = ptr
    BY <1>2, <1>3, <2>1, <2>3, <2>4 DEF Relies, Same
  <2>5. CASE a # ptr
    <3>1. g.mem[BlockAt(h, a)] = h.mem[BlockAt(h, a)]
      BY <1>2, <2>2, <2>5
    <3>2. h.page_class[a[1]] = LARGE => g.mem[BlockOf(a)] = h.mem[BlockOf(a)]
      BY <3>1 DEF BlockAt
    <3> QED
      BY <1>2, <1>3, <2>1, <2>3, <2>5, <3>2 DEF Relies, Same
  <2> QED
    BY <2>4, <2>5
<1>7. Owned(g, hd2, ct)
  BY <1>2, <1>3, <1>4, <1>5, <1>6 DEF Owned, Relies
<1> QED
  BY <1>2, <1>4, <1>5, <1>7 DEF hd2, U, g

\* The blocks of g3 are those of g, with the block of q in use.
SameBlocks(h, hd, g, q, g3, hd3) ==
    UsedBlocks(g3, hd3) \cup AllFree(g3)
      = (UsedBlocks(h, hd) \cup {BlockAt(g, q)}) \cup AllFree(g)

\* A block is moved: the word is copied before the old block is given back.
LEMMA MoveOwned ==
    ASSUME NEW h, NEW hd, NEW ct, Owned(h, hd, ct), NEW ptr \in InUse(hd),
           NEW g, NEW q, NEW size \in Size, size > 0,
           HandedOut(h, UsedBlocks(h, hd), g, q, size)
    PROVE  /\ Owned(Move(g, ptr, q), [hd EXCEPT ![ptr] = 0, ![q] = size],
                    [ct EXCEPT ![ptr] = NoContent, ![q] = ct[ptr]])
           /\ Same(g, Move(g, ptr, q))
           /\ InUse([hd EXCEPT ![ptr] = 0, ![q] = size])
                = (InUse(hd) \ {ptr}) \cup {q}
           /\ SameBlocks(h, hd, g, q, Move(g, ptr, q),
                         [hd EXCEPT ![ptr] = 0, ![q] = size])
           /\ q \in Address /\ q \notin InUse(hd)
<1> DEFINE hd1 == [hd EXCEPT ![q] = size]
           ct1 == [ct EXCEPT ![q] = g.mem[q]]
           g2 == CopyWord(g, ptr, q)
           ct2 == [ct1 EXCEPT ![q] = g.mem[ptr]]
           g3 == PoolFree(g2, ptr)
           hd3 == [hd1 EXCEPT ![ptr] = 0]
           ct3 == [ct2 EXCEPT ![ptr] = NoContent]
<1>1. /\ Owned(g, hd1, ct1) /\ q \in Address /\ q \notin InUse(hd)
      /\ InUse(hd1) = InUse(hd) \cup {q}
      /\ UsedBlocks(g, hd1) = UsedBlocks(h, hd) \cup {BlockAt(g, q)}
  <2>1. Owned(g, hd1, ct1)
    BY HandedOutOwned
  <2>2. q \in Address /\ q \notin InUse(hd)
    BY HandedOutOwned
  <2>3. InUse(hd1) = InUse(hd) \cup {q}
    BY <2>2 DEF Owned, InUse
  <2> HIDE DEF hd1
  <2>4. UsedBlocks(g, hd) = UsedBlocks(h, hd)
    BY FrameOwned DEF HandedOut
  <2>5. UsedBlocks(g, hd1) = UsedBlocks(h, hd) \cup {BlockAt(g, q)}
    BY <2>3, <2>4 DEF UsedBlocks
  <2> QED
    BY <2>1, <2>2, <2>3, <2>5
<1>2. ptr \in Address /\ ptr # q /\ hd \in [Address -> Size] /\ ct \in [Address -> Word]
  BY <1>1 DEF InUse, Owned
<1>3. g.mem[ptr] = ct[ptr] /\ ct[ptr] \in Word
  <2>1. g.mem[ptr] = ct1[ptr]
    BY <1>1 DEF Owned
  <2> QED
    BY <1>1, <1>2, <2>1
<1>4. ptr \in InUse(hd1) /\ q \in InUse(hd1)
  BY <1>1
<1>5. g2 = SetWord(g, q, g.mem[ptr]) /\ Move(g, ptr, q) = g3
  BY DEF CopyWord, Move
<1>6. /\ hd3 = [hd EXCEPT ![ptr] = 0, ![q] = size]
      /\ ct3 = [ct EXCEPT ![ptr] = NoContent, ![q] = ct[ptr]]
  BY <1>1, <1>2, <1>3
<1> HIDE DEF hd1, ct1, g2
<1>7. /\ Owned(g2, hd1, ct2) /\ Same(g, g2)
      /\ UsedBlocks(g2, hd1) = UsedBlocks(g, hd1) /\ AllFree(g2) = AllFree(g)
  BY <1>1, <1>3, <1>4, <1>5, WriteOwned
<1> HIDE DEF ct2
<1>8. /\ Owned(g3, hd3, ct3) /\ Same(g2, g3) /\ InUse(hd3) = InUse(hd1) \ {ptr}
      /\ UsedBlocks(g3, hd3) \cup AllFree(g3) = UsedBlocks(g2, hd1) \cup AllFree(g2)
  BY <1>4, <1>7, FreeOwned
<1> HIDE DEF g3, hd3, ct3
<1>9. Same(g, g3)
  BY <1>7, <1>8 DEF Same
<1>10. InUse(hd3) = (InUse(hd) \ {ptr}) \cup {q}
  BY <1>1, <1>2, <1>8
<1>11. SameBlocks(h, hd, g, q, g3, hd3)
  BY <1>1, <1>7, <1>8 DEF SameBlocks
<1> QED
  BY <1>1, <1>5, <1>6, <1>8, <1>9, <1>10, <1>11

-------------------------------------------------------------------------------
(* The region. *)

HeadsOf(B) == {b[1] : b \in {x \in B : x[2] = 0}}

\* The blocks B of heap h tile the pages below the bump.
Tiled(h, B) ==
    /\ \A p \in Page :
           /\ (p < h.bump) = (h.page_class[p] # UNASSIGNED)
           /\ p < h.bump => \E s \in HeadsOf(B) : p \in s .. s + SpanOf(h, s) - 1
    /\ \A s \in HeadsOf(B) :
           /\ s + SpanOf(h, s) <= h.bump
           /\ \A t \in HeadsOf(B) : t > s => t >= s + SpanOf(h, s)
           /\ \A p \in s .. s + SpanOf(h, s) - 1 :
                  h.page_class[p] = h.page_class[s]
           /\ \A i \in 0 .. CutInto(h, s) - 1 : <<s, i>> \in B
           /\ \A i \in CutInto(h, s) .. SLOTS - 1 : <<s, i>> \notin B

\* The layout depends on the region only, not on the lists.
LEMMA SameTiled ==
    ASSUME NEW h, NEW g, NEW B, Same(h, g), Tiled(h, B)
    PROVE  Tiled(g, B)
  BY DEF Same, Tiled, SpanOf, CutInto

\* An allocation keeps the blocks in their places, and puts the new ones right
\* behind them.
LEMMA RegrownTiled ==
    ASSUME NEW h, NEW U, NEW g, NEW V, Sound(h, U), Sound(g, V),
           Regrown(h, U, g, V), Tiled(h, U \cup AllFree(h))
    PROVE  Tiled(g, V \cup AllFree(g))
<1> DEFINE B == U \cup AllFree(h)
           C == V \cup AllFree(g)
           n == SpanOf(g, h.bump)
           cut == CutInto(g, h.bump)
<1>1. CASE Same(h, g) /\ C = B
  BY <1>1, SameTiled
<1>2. CASE /\ Taken(h, g, n, g.page_class[h.bump])
           /\ g.page_class[h.bump] \in Kind
           /\ \A p \in Page : p # h.bump => g.total[p] = h.total[p]
           /\ C = B \cup {<<h.bump, i>> : i \in 0 .. cut - 1}
  <2>1. /\ h.bump \in Page /\ h.bump \in Nat /\ n \in Nat \ {0} /\ g.bump = h.bump + n
        /\ g.bump <= PAGES /\ PAGES \in Nat /\ SLOTS \in Nat \ {0}
        /\ \A p \in Page : g.page_class[p] = IF h.bump <= p /\ p < h.bump + n
                               THEN g.page_class[h.bump] ELSE h.page_class[p]
    BY <1>2, GeometryAssumption DEF Taken, Page
  <2>2. cut \in Nat \ {0} /\ cut <= SLOTS
    <3>1. CASE g.page_class[h.bump] = LARGE
      BY <2>1, <3>1, GeometryAssumption DEF CutInto
    <3>2. CASE g.page_class[h.bump] \in Class
      BY <3>2, KindFacts, ClassFacts DEF CutInto
    <3> QED
      BY <1>2, <3>1, <3>2 DEF Kind
  <2>3. \A b \in B : b \in Address /\ b[1] \in Page /\ h.page_class[b[1]] \in Kind
    <3>1. \A b \in U : b \in Address /\ h.page_class[b[1]] \in Kind
      BY DEF Sound
    <3>2. \A b \in AllFree(h) : b \in Address /\ h.page_class[b[1]] \in Kind
      BY FreeFacts
    <3> QED
      BY <3>1, <3>2, AddressFacts
  <2>4. \A b \in B : b[1] < h.bump /\ b[1] \in Nat
    BY <2>3, KindFacts DEF Sound, Page
  <2> HIDE DEF B, C, cut
  <2>5. \A s \in HeadsOf(B) : s \in Page /\ s \in Nat /\ s < h.bump
    BY <2>3, <2>4 DEF HeadsOf
  <2>6. HeadsOf(C) = HeadsOf(B) \cup {h.bump}
    <3>1. HeadsOf(C) \subseteq HeadsOf(B) \cup {h.bump}
      BY <1>2 DEF HeadsOf
    <3>2. HeadsOf(B) \subseteq HeadsOf(C)
      BY <1>2 DEF HeadsOf
    <3>3. <<h.bump, 0>> \in C
      BY <1>2, <2>2
    <3>4. h.bump \in HeadsOf(C)
      BY <3>3 DEF HeadsOf
    <3> QED
      BY <3>1, <3>2, <3>4
  <2>7. \A p \in Page : p < h.bump =>
            g.page_class[p] = h.page_class[p] /\ g.total[p] = h.total[p]
    <3> SUFFICES ASSUME NEW p \in Page, p < h.bump
                 PROVE  g.page_class[p] = h.page_class[p] /\ g.total[p] = h.total[p]
      OBVIOUS
    <3>1. p \in Nat /\ p # h.bump /\ ~(h.bump <= p)
      BY <2>1 DEF Page
    <3> QED
      BY <1>2, <2>1, <3>1
  <2>8. \A s \in HeadsOf(B) : SpanOf(g, s) = SpanOf(h, s) /\ CutInto(g, s) = CutInto(h, s)
    BY <2>5, <2>7 DEF SpanOf, CutInto
  <2>9. \A s \in HeadsOf(B) : SpanOf(h, s) \in Nat
    <3> SUFFICES ASSUME NEW s \in HeadsOf(B) PROVE SpanOf(h, s) \in Nat
      OBVIOUS
    <3>1. s \in Page /\ h.page_class[s] \in Kind
      BY <2>3 DEF HeadsOf
    <3>2. h.total[s] \in Nat
      BY <3>1 DEF Sound, HeapType
    <3> QED
      BY <3>1, <3>2, ClassFacts DEF SpanOf, Kind
  <2>10. Tiled(h, B)
    BY DEF B
  <2> HIDE DEF n
  <2>11. ASSUME NEW p \in Page, p < g.bump
         PROVE  \E s \in HeadsOf(C) : p \in s .. s + SpanOf(g, s) - 1
    <3>1. CASE p < h.bump
      <4>1. PICK s \in HeadsOf(B) : p \in s .. s + SpanOf(h, s) - 1
        BY <2>10, <3>1 DEF Tiled
      <4> QED
        BY <2>6, <2>8, <4>1
    <3>2. CASE ~(p < h.bump)
      <4>1. p \in h.bump .. h.bump + n - 1
        BY <2>1, <2>11, <3>2 DEF Page
      <4> QED
        BY <2>6, <4>1 DEF n
    <3> QED
      BY <3>1, <3>2
  <2>12. ASSUME NEW s \in HeadsOf(B)
         PROVE  /\ s + SpanOf(g, s) <= h.bump
                /\ s + SpanOf(g, s) <= g.bump
                /\ \A t \in HeadsOf(C) : t > s => t >= s + SpanOf(g, s)
                /\ \A p \in s .. s + SpanOf(g, s) - 1 :
                       g.page_class[p] = g.page_class[s]
                /\ \A i \in 0 .. CutInto(g, s) - 1 : <<s, i>> \in C
                /\ \A i \in CutInto(g, s) .. SLOTS - 1 : <<s, i>> \notin C
    <3>1. /\ s \in Page /\ s \in Nat /\ s < h.bump /\ SpanOf(g, s) = SpanOf(h, s)
          /\ CutInto(g, s) = CutInto(h, s) /\ SpanOf(g, s) \in Nat
      BY <2>5, <2>8, <2>9
    <3>2. /\ s + SpanOf(g, s) <= h.bump
          /\ \A t \in HeadsOf(B) : t > s => t >= s + SpanOf(g, s)
          /\ \A p \in s .. s + SpanOf(g, s) - 1 : h.page_class[p] = h.page_class[s]
          /\ \A i \in 0 .. CutInto(g, s) - 1 : <<s, i>> \in B
          /\ \A i \in CutInto(g, s) .. SLOTS - 1 : <<s, i>> \notin B
      BY <2>10, <3>1 DEF Tiled
    <3>3. s + SpanOf(g, s) <= g.bump
      BY <2>1, <3>1, <3>2
    <3>4. \A p \in s .. s + SpanOf(g, s) - 1 : g.page_class[p] = g.page_class[s]
      <4> SUFFICES ASSUME NEW p \in s .. s + SpanOf(g, s) - 1
                   PROVE  g.page_class[p] = g.page_class[s]
        OBVIOUS
      <4>1. p \in Page /\ p < h.bump
        BY <2>1, <3>1, <3>2 DEF Page
      <4> QED
        BY <2>7, <3>1, <3>2, <4>1
    <3>5. \A i \in CutInto(g, s) .. SLOTS - 1 : <<s, i>> \notin C
      BY <1>2, <2>1, <3>1, <3>2
    <3> QED
      BY <1>2, <2>6, <3>2, <3>3, <3>4, <3>5
  <2>13. /\ h.bump + n <= g.bump
         /\ \A t \in HeadsOf(C) : ~(t > h.bump)
         /\ \A p \in h.bump .. h.bump + n - 1 : g.page_class[p] = g.page_class[h.bump]
         /\ \A i \in 0 .. cut - 1 : <<h.bump, i>> \in C
         /\ \A i \in cut .. SLOTS - 1 : <<h.bump, i>> \notin C
    <3>1. \A t \in HeadsOf(C) : ~(t > h.bump)
      BY <2>1, <2>5, <2>6
    <3>2. \A p \in h.bump .. h.bump + n - 1 : g.page_class[p] = g.page_class[h.bump]
      <4> SUFFICES ASSUME NEW p \in h.bump .. h.bump + n - 1
                   PROVE  g.page_class[p] = g.page_class[h.bump]
        OBVIOUS
      <4>1. p \in Page /\ h.bump <= p /\ p < h.bump + n
        BY <2>1 DEF Page
      <4> QED
        BY <2>1, <4>1
    <3>3. \A i \in cut .. SLOTS - 1 : <<h.bump, i>> \notin C
      <4> SUFFICES ASSUME NEW i \in cut .. SLOTS - 1 PROVE <<h.bump, i>> \notin C
        OBVIOUS
      <4>1. <<h.bump, i>> \notin B
        BY <2>1, <2>4
      <4>2. ~(i \in 0 .. cut - 1)
        BY <2>1, <2>2
      <4> QED
        BY <1>2, <4>1, <4>2
    <3> QED
      BY <1>2, <2>1, <3>1, <3>2, <3>3
  <2>14. \A p \in Page : (p < g.bump) = (g.page_class[p] # UNASSIGNED)
    BY DEF Sound
  <2>15. ASSUME NEW s \in HeadsOf(C)
         PROVE  /\ s + SpanOf(g, s) <= g.bump
                /\ \A t \in HeadsOf(C) : t > s => t >= s + SpanOf(g, s)
                /\ \A p \in s .. s + SpanOf(g, s) - 1 :
                       g.page_class[p] = g.page_class[s]
                /\ \A i \in 0 .. CutInto(g, s) - 1 : <<s, i>> \in C
                /\ \A i \in CutInto(g, s) .. SLOTS - 1 : <<s, i>> \notin C
    <3>1. CASE s \in HeadsOf(B)
      BY <2>12, <3>1
    <3>2. CASE s = h.bump
      BY <2>13, <3>2 DEF n, cut
    <3> QED
      BY <2>6, <3>1, <3>2
  <2>16. Tiled(g, C)
    BY <2>11, <2>14, <2>15 DEF Tiled
  <2> QED
    BY <2>16 DEF C
<1> QED
  BY <1>1, <1>2 DEF Regrown

\* Every block lies on the page where the pages taken with it start.
Headed(B) == \A b \in B : b[1] \in HeadsOf(B)

\* Every block of a page taken lies behind its first block.
LEMMA RegrownHeaded ==
    ASSUME NEW h, NEW U, NEW g, NEW V, Sound(h, U),
           Regrown(h, U, g, V), Headed(U \cup AllFree(h))
    PROVE  Headed(V \cup AllFree(g))
<1> DEFINE B == U \cup AllFree(h)
           C == V \cup AllFree(g)
           cut == CutInto(g, h.bump)
<1>1. CASE C = B
  BY <1>1
<1>2. CASE /\ h.bump \in Page /\ g.page_class[h.bump] \in Kind
           /\ C = B \cup {<<h.bump, i>> : i \in 0 .. cut - 1}
  <2>1. cut \in Nat \ {0}
    <3>1. CASE g.page_class[h.bump] = LARGE
      BY <3>1 DEF CutInto
    <3>2. CASE g.page_class[h.bump] \in Class
      BY <3>2, KindFacts, ClassFacts DEF CutInto
    <3> QED
      BY <1>2, <3>1, <3>2 DEF Kind
  <2> HIDE DEF B, C, cut
  <2>2. <<h.bump, 0>> \in C
    BY <1>2, <2>1
  <2>3. HeadsOf(B) \subseteq HeadsOf(C) /\ h.bump \in HeadsOf(C)
    BY <1>2, <2>2 DEF HeadsOf
  <2>4. \A b \in C : b \in B \/ b[1] = h.bump
    BY <1>2
  <2>5. Headed(B)
    BY DEF B
  <2>6. Headed(C)
    BY <2>3, <2>4, <2>5 DEF Headed
  <2> QED
    BY <2>6 DEF C
<1> QED
  BY <1>1, <1>2 DEF Regrown, Taken

-------------------------------------------------------------------------------
(* The inductive invariant. *)

StatsType == [allocs : 0 .. COUNTER-1, frees : 0 .. COUNTER-1,
              bytes : 0 .. COUNTER-1]

\* The inductive invariant: what every pointer in use relies on, which needs
\* the lists to be sound, and the layout of the region.
IInv == /\ Owned(heap, held, content)
        /\ Tiled(heap, HeldBlocks \cup AllFree(heap))
        /\ Headed(HeldBlocks \cup AllFree(heap))
        /\ stats \in StatsType

\* Nothing assigned changes class, and the bump does not move back.
Grows(h, g) == /\ g.bump >= h.bump
               /\ \A p \in Page : h.page_class[p] # UNASSIGNED =>
                     g.page_class[p] = h.page_class[p]

-------------------------------------------------------------------------------
(* The statistics. *)

\* Every counter stays within its width, whatever is added or taken back.
LEMMA TrackType ==
    ASSUME NEW st \in StatsType, NEW n \in Int, NEW m \in Int
    PROVE  /\ TrackAlloc(st, n) \in StatsType
           /\ TrackFree(st, n) \in StatsType
           /\ Recharge(st, n, m) \in StatsType
<1>1. \A x \in Int : x % COUNTER \in 0 .. COUNTER-1
  BY OtherAssumption
<1>2. st.allocs \in Int /\ st.frees \in Int /\ st.bytes \in Int
  BY DEF StatsType
<1>3. /\ (st.allocs + 1) % COUNTER \in 0 .. COUNTER-1
      /\ (st.frees + 1) % COUNTER \in 0 .. COUNTER-1
      /\ (st.bytes + n) % COUNTER \in 0 .. COUNTER-1
      /\ (st.bytes - n) % COUNTER \in 0 .. COUNTER-1
      /\ (st.bytes - n + m) % COUNTER \in 0 .. COUNTER-1
  BY <1>1, <1>2
<1> QED
  BY <1>3 DEF TrackAlloc, TrackFree, Recharge, StatsType

\* What a block is charged is a number.
LEMMA ChargeType == ASSUME NEW size \in Size PROVE Charge(size) \in Int
<1>1. CASE SizeClass(size) = LARGE
  BY <1>1, SizeAssumption DEF Charge
<1>2. CASE SizeClass(size) # LARGE
  BY <1>2, SizeAssumption, GeometryAssumption DEF Charge
<1> QED
  BY <1>1, <1>2

\* pool_free and get_usable_size read a size, never a link or user data.
LEMMA UsableType ==
    ASSUME NEW h, NEW hd, NEW ct, Owned(h, hd, ct), NEW a \in InUse(hd)
    PROVE  Usable(h, a) \in Int
<1>1. h.page_class[a[1]] \in Kind /\ a \in Address /\ hd[a] \in Nat
  <2>1. h.page_class[a[1]] \in Kind /\ a \in Address
    BY InUseFacts
  <2>2. hd \in [Address -> Size]
    BY DEF Owned
  <2> QED
    BY <2>1, <2>2, SizeAssumption
<1>2. CASE h.page_class[a[1]] \in Class
  BY <1>2, GeometryAssumption DEF Usable
<1>3. CASE h.page_class[a[1]] = LARGE
  <2>1. h.mem[BlockOf(a)] = Number(hd[a])
    BY <1>3 DEF Owned
  <2>2. Target(Number(hd[a])) = hd[a]
    BY DEF Target, Number
  <2> QED
    BY <1>1, <1>3, <2>1, <2>2, KindFacts DEF Usable
<1> QED
  BY <1>1, <1>2, <1>3 DEF Kind

-------------------------------------------------------------------------------
(* The steps. *)

\* The region after pool_create.
LEMMA InitIInv == Init => IInv
<1> SUFFICES ASSUME Init PROVE IInv
  OBVIOUS
<1>1. /\ heap.bump = 0 /\ heap.page_class = [p \in Page |-> UNASSIGNED]
      /\ heap.lists = [k \in Kind |-> EmptyList]
      /\ heap.chains = [k \in Kind |-> <<>>]
      /\ heap.mem = [a \in Address |-> Number(0)]
      /\ heap.total = [p \in Page |-> 0]
      /\ held = [a \in Address |-> 0] /\ content = [a \in Address |-> Number(0)]
  BY DEF Init, InitHeap, NoContent
<1>2. InUse(held) = {} /\ HeldBlocks = {} /\ UsedBlocks(heap, held) = {}
  BY <1>1 DEF InUse, HeldBlocks, UsedBlocks, Held
<1>3. FreeOf(EmptyList, <<>>) = {} /\ IsList(EmptyList, heap.mem, <<>>)
  <2>1. ToSet(<<>>) = {} /\ Injective(<<>>)
    BY DEF ToSet, Injective
  <2> QED
    BY <2>1, MagSizeAssumption DEF FreeOf, IsList, EmptyList
<1>4. (\A k \in Kind : FreeBlocks(heap, k) = {}) /\ AllFree(heap) = {}
  BY <1>1, <1>3 DEF FreeBlocks, AllFree
<1>5. heap \in HeapType
  <2>1. EmptyList \in List(Address) /\ <<>> \in Seq(Address)
    BY DEF EmptyList, List
  <2>2. Number(0) \in Word /\ 0 \in 0 .. PAGES
    BY GeometryAssumption DEF Word
  <2> QED
    BY <2>1, <2>2 DEF Init, InitHeap, HeapType
<1>6. \A p \in Page : (p < heap.bump) = (heap.page_class[p] # UNASSIGNED)
  BY <1>1 DEF Page
<1>7. Sound(heap, {})
  BY <1>1, <1>3, <1>4, <1>5, <1>6 DEF Sound
<1>8. held \in [Address -> Size] /\ content \in [Address -> Word]
  BY <1>1, SizeAssumption DEF Word
<1>9. Owned(heap, held, content)
  BY <1>2, <1>7, <1>8 DEF Owned
<1>10. HeadsOf({}) = {}
  BY DEF HeadsOf
<1>11. Tiled(heap, {}) /\ Headed({})
  BY <1>1, <1>6, <1>10 DEF Tiled, Headed, Page
<1>12. stats \in StatsType
  BY OtherAssumption DEF Init, StatsType
<1> QED
  BY <1>2, <1>4, <1>9, <1>11, <1>12 DEF IInv

\* An allocation, of a block of its own or the first half of a move.
LEMMA AllocateCases ==
    ASSUME NoWrap, IInv, NEW size \in Size, NEW r, r = PoolAllocate(heap, size)
    PROVE  IF r.ptr = NULL THEN Declined(heap, HeldBlocks, r.heap)
                           ELSE HandedOut(heap, HeldBlocks, r.heap, r.ptr, size)
<1>1. HeldBlocks = UsedBlocks(heap, held)
  BY DEF HeldBlocks, UsedBlocks, Held, InUse
<1>2. Sound(heap, HeldBlocks)
  BY <1>1 DEF IInv, Owned
<1> QED
  BY <1>2, AllocateSound

\* The layout is that of the new heap when its blocks are the new ones.
LEMMA LayoutStep ==
    ASSUME NEW h, NEW U, NEW g, NEW V, Sound(h, U), Sound(g, V), Regrown(h, U, g, V),
           Tiled(h, U \cup AllFree(h)), Headed(U \cup AllFree(h))
    PROVE  Tiled(g, V \cup AllFree(g)) /\ Headed(V \cup AllFree(g))
  BY RegrownTiled, RegrownHeaded

\* An allocation only adds to the pages assigned.
LEMMA FrameGrows ==
    ASSUME NEW h, NEW g, Frame(h, g), h.bump \in Nat, g.bump \in Nat
    PROVE  Grows(h, g)
  BY DEF Frame, Grows

\* A step that leaves the region alone assigns nothing.
LEMMA SameGrows ==
    ASSUME NEW h, NEW g, Same(h, g), h.bump \in Nat
    PROVE  Grows(h, g)
  BY DEF Same, Grows

\* The invariant, in the terms the lemmas on heaps are stated in.
LEMMA Facts ==
    ASSUME IInv
    PROVE  /\ HeldBlocks = UsedBlocks(heap, held) /\ Held = InUse(held)
           /\ Sound(heap, HeldBlocks) /\ heap.bump \in Nat
           /\ held \in [Address -> Size] /\ content \in [Address -> Word]
<1>1. HeldBlocks = UsedBlocks(heap, held) /\ Held = InUse(held)
  BY DEF HeldBlocks, UsedBlocks, Held, InUse
<1>2. Sound(heap, HeldBlocks)
  BY <1>1 DEF IInv, Owned
<1>3. heap.bump \in Nat
  BY <1>2, GeometryAssumption DEF Sound, HeapType
<1> QED
  BY <1>1, <1>2, <1>3 DEF IInv, Owned

\* The invariant of the next state, from what a step did to the heap and to the
\* program.
LEMMA NextState ==
    ASSUME Owned(heap', held', content'),
           Tiled(heap', UsedBlocks(heap', held') \cup AllFree(heap')),
           Headed(UsedBlocks(heap', held') \cup AllFree(heap')),
           stats' \in StatsType
    PROVE  IInv'
<1>1. HeldBlocks' = UsedBlocks(heap', held')
  BY DEF HeldBlocks, UsedBlocks, Held, InUse
<1> QED
  BY <1>1 DEF IInv

\* A step that moves blocks between the lists and the program only.
LEMMA SameLayout ==
    ASSUME IInv, NEW g, NEW hd, Same(heap, g),
           UsedBlocks(g, hd) \cup AllFree(g)
             = UsedBlocks(heap, held) \cup AllFree(heap)
    PROVE  /\ Tiled(g, UsedBlocks(g, hd) \cup AllFree(g))
           /\ Headed(UsedBlocks(g, hd) \cup AllFree(g))
           /\ Grows(heap, g)
  BY Facts, SameTiled, SameGrows DEF IInv

\* An allocation that is refused: the heap may have put a large block back.
LEMMA DeclinedStep ==
    ASSUME IInv, Declined(heap, UsedBlocks(heap, held), heap'),
           UNCHANGED <<stats, held, content>>
    PROVE  IInv' /\ Grows(heap, heap')
<1> DEFINE U == UsedBlocks(heap, held)
<1>1. /\ Owned(heap, held, content) /\ stats \in StatsType
      /\ U = HeldBlocks /\ Sound(heap, U) /\ heap.bump \in Nat
      /\ Tiled(heap, U \cup AllFree(heap)) /\ Headed(U \cup AllFree(heap))
  BY Facts DEF IInv
<1>2. Declined(heap, U, heap') /\ held' = held /\ content' = content /\ stats' = stats
  OBVIOUS
<1> HIDE DEF U
<1>3. Owned(heap', held', content')
  BY <1>1, <1>2, DeclinedOwned DEF U
<1>4. UsedBlocks(heap', held') = U
  BY <1>1, <1>2, FrameOwned DEF Declined, U
<1>5. /\ Sound(heap', U) /\ Regrown(heap, U, heap', U) /\ Frame(heap, heap')
      /\ heap'.bump \in Nat
  BY <1>2, GeometryAssumption DEF Declined, Sound, HeapType
<1>6. Tiled(heap', U \cup AllFree(heap')) /\ Headed(U \cup AllFree(heap'))
  BY <1>1, <1>5, LayoutStep
<1>7. IInv'
  BY <1>1, <1>2, <1>3, <1>4, <1>6, NextState
<1> QED
  BY <1>1, <1>5, <1>7, FrameGrows

\* pool_allocate.
LEMMA AllocateStep ==
    ASSUME NoWrap, IInv, NEW size \in Size, Allocate(size)
    PROVE  IInv' /\ Grows(heap, heap')
<1> DEFINE r == PoolAllocate(heap, size)
           U == UsedBlocks(heap, held)
<1>1. /\ heap' = r.heap /\ Owned(heap, held, content) /\ stats \in StatsType
      /\ U = HeldBlocks /\ Sound(heap, U) /\ heap.bump \in Nat
      /\ Tiled(heap, U \cup AllFree(heap)) /\ Headed(U \cup AllFree(heap))
  BY Facts DEF Allocate, IInv
<1>2. IF r.ptr = NULL THEN Declined(heap, U, heap')
                      ELSE HandedOut(heap, U, heap', r.ptr, size)
  BY <1>1, AllocateCases
<1>3. CASE r.ptr = NULL
  <2>1. held' = held /\ content' = content /\ stats' = stats
    BY <1>3 DEF Allocate
  <2> QED
    BY <1>1, <1>2, <1>3, <2>1, DeclinedStep
<1>4. CASE r.ptr # NULL
  <2> DEFINE ptr == r.ptr
             V == U \cup {BlockAt(heap', ptr)}
  <2>1. /\ held' = [held EXCEPT ![ptr] = size]
        /\ content' = [content EXCEPT ![ptr] = heap'.mem[ptr]]
        /\ stats' = TrackAlloc(stats, Charge(size))
    BY <1>1, <1>4 DEF Allocate
  <2>2. HandedOut(heap, U, heap', ptr, size)
    BY <1>2, <1>4
  <2>3. size > 0
    <3>1. size # 0
      BY <1>4 DEF PoolAllocate
    <3> QED
      BY <3>1, SizeAssumption
  <2> HIDE DEF r, U, ptr
  <2>4. Owned(heap', held', content')
    BY <1>1, <2>1, <2>2, <2>3, HandedOutOwned DEF U
  <2>5. UsedBlocks(heap', held') = V
    <3>1. ptr \in Address /\ held \in [Address -> Size]
      BY <2>2, Facts DEF HandedOut
    <3>2. InUse(held') = InUse(held) \cup {ptr}
      BY <2>1, <2>3, <3>1 DEF InUse
    <3>3. UsedBlocks(heap', held) = U
      BY <1>1, <2>2, FrameOwned DEF HandedOut, U
    <3> QED
      BY <3>2, <3>3 DEF UsedBlocks
  <2>6. /\ Sound(heap', V) /\ Regrown(heap, U, heap', V) /\ Frame(heap, heap')
        /\ heap'.bump \in Nat
    BY <2>2, GeometryAssumption DEF HandedOut, Sound, HeapType
  <2> HIDE DEF V
  <2>7. /\ Tiled(heap', V \cup AllFree(heap')) /\ Headed(V \cup AllFree(heap'))
    BY <1>1, <2>6, LayoutStep
  <2>8. stats' \in StatsType
    BY <1>1, <2>1, ChargeType, TrackType
  <2>9. IInv'
    BY <2>4, <2>5, <2>7, <2>8, NextState
  <2> QED
    BY <1>1, <2>6, <2>9, FrameGrows
<1> QED
  BY <1>3, <1>4

\* pool_free.
LEMMA FreeStep ==
    ASSUME IInv, NEW ptr, Free(ptr)
    PROVE  IInv' /\ Grows(heap, heap')
<1>1. CASE ptr = NULL
  <2>1. UNCHANGED vars
    BY <1>1, AddressFacts DEF Free, PoolFree, vars
  <2>2. IInv'
    BY <2>1 DEF vars, IInv, HeldBlocks, Held, BlockAt
  <2>3. Same(heap, heap')
    BY <2>1 DEF vars, Same
  <2> QED
    BY <2>2, <2>3, Facts, SameGrows
<1>2. CASE ptr # NULL
  <2>1. /\ ptr \in InUse(held) /\ heap' = PoolFree(heap, ptr)
        /\ held' = [held EXCEPT ![ptr] = 0]
        /\ content' = [content EXCEPT ![ptr] = NoContent]
        /\ stats' = TrackFree(stats, Usable(heap, ptr))
    BY <1>2, Facts DEF Free
  <2>2. Owned(heap, held, content) /\ stats \in StatsType
    BY DEF IInv
  <2>3. /\ Owned(heap', held', content') /\ Same(heap, heap')
        /\ UsedBlocks(heap', held') \cup AllFree(heap')
             = UsedBlocks(heap, held) \cup AllFree(heap)
    BY <2>1, <2>2, FreeOwned
  <2>4. stats' \in StatsType
    BY <2>1, <2>2, UsableType, TrackType
  <2> QED
    BY <2>3, <2>4, SameLayout, NextState
<1> QED
  BY <1>1, <1>2

\* The program writes.
LEMMA WriteStep ==
    ASSUME IInv, NEW ptr, NEW v \in Value, Write(ptr, v)
    PROVE  IInv' /\ Grows(heap, heap')
<1>1. /\ ptr \in InUse(held) /\ heap' = SetWord(heap, ptr, Data(v))
      /\ content' = [content EXCEPT ![ptr] = Data(v)]
      /\ held' = held /\ stats' = stats
  BY Facts DEF Write
<1>2. Owned(heap, held, content) /\ stats \in StatsType /\ Data(v) \in Word
  BY DEF IInv, Word
<1>3. /\ Owned(heap', held', content') /\ Same(heap, heap')
      /\ UsedBlocks(heap', held') = UsedBlocks(heap, held)
      /\ AllFree(heap') = AllFree(heap)
  BY <1>1, <1>2, WriteOwned
<1> QED
  BY <1>1, <1>2, <1>3, SameLayout, NextState

\* pool_reallocate.
LEMMA ReallocateStep ==
    ASSUME NoWrap, IInv, NEW ptr, NEW size \in Size, Reallocate(ptr, size)
    PROVE  IInv' /\ Grows(heap, heap')
<1> DEFINE r == PoolAllocate(heap, size)
           U == UsedBlocks(heap, held)
<1>1. /\ Owned(heap, held, content) /\ stats \in StatsType
      /\ U = HeldBlocks /\ Sound(heap, U) /\ heap.bump \in Nat
      /\ Tiled(heap, U \cup AllFree(heap)) /\ Headed(U \cup AllFree(heap))
      /\ held \in [Address -> Size] /\ content \in [Address -> Word]
      /\ Held = InUse(held)
  BY Facts DEF IInv
<1>2. CASE UNCHANGED vars
  <2>1. IInv' /\ Same(heap, heap')
    BY <1>2 DEF vars, IInv, HeldBlocks, Held, BlockAt, Same
  <2> QED
    BY <1>1, <2>1, SameGrows
<1>3. CASE ReallocateSameClass(ptr, size)
  <2>1. /\ ptr \in InUse(held) /\ held' = [held EXCEPT ![ptr] = size]
        /\ heap' = heap /\ content' = content /\ stats' = stats
        /\ heap.page_class[ptr[1]] \in Class
        /\ heap.page_class[ptr[1]] = SizeClass(size) /\ size > 0
    BY <1>1, <1>3 DEF ReallocateSameClass
  <2>2. /\ held' \in [Address -> Size] /\ InUse(held') = InUse(held)
        /\ held'[ptr] = size /\ \A a \in Address : a # ptr => held'[a] = held[a]
    BY <1>1, <2>1 DEF InUse
  <2>3. UsedBlocks(heap, held') = U
    BY <2>2 DEF UsedBlocks
  <2>4. ASSUME NEW a \in InUse(held) PROVE Relies(heap, a, held'[a], content[a])
    <3>1. Relies(heap, a, held[a], content[a]) /\ a \in Address
      BY <1>1 DEF Owned, Relies, InUse
    <3> QED
      BY <2>1, <2>2, <3>1, KindFacts DEF Relies
  <2>5. Owned(heap, held', content)
    BY <1>1, <2>2, <2>3, <2>4 DEF Owned, Relies
  <2>6. IInv'
    BY <1>1, <2>1, <2>3, <2>5, NextState
  <2>7. Same(heap, heap')
    BY <2>1 DEF Same
  <2> QED
    BY <1>1, <2>6, <2>7, SameGrows
<1>4. CASE ReallocateLargeInPlace(ptr, size)
  <2>1. /\ ptr \in InUse(held) /\ held' = [held EXCEPT ![ptr] = size]
        /\ heap' = SetUserSize(heap, BlockOf(ptr), size)
        /\ content' = content /\ stats' = Recharge(stats, Usable(heap, ptr), size)
        /\ heap.page_class[ptr[1]] = LARGE /\ SizeClass(size) = LARGE
        /\ LargePages(size) <= heap.total[ptr[1]] /\ size > 0
    BY <1>1, <1>4 DEF ReallocateLargeInPlace, LargeFitsInPlace
  <2>2. /\ Owned(heap', held', content') /\ Same(heap, heap')
        /\ UsedBlocks(heap', held') = U /\ AllFree(heap') = AllFree(heap)
    BY <1>1, <2>1, InPlaceOwned
  <2>3. stats' \in StatsType
    <3>1. size \in Int
      BY SizeAssumption
    <3> QED
      BY <1>1, <2>1, <3>1, UsableType, TrackType
  <2> QED
    BY <2>2, <2>3, SameLayout, NextState
<1>5. CASE ReallocateMove(ptr, size) /\ r.ptr = NULL
  <2>1. held' = held /\ content' = content /\ stats' = stats /\ heap' = r.heap
    BY <1>5 DEF ReallocateMove
  <2>2. Declined(heap, U, heap')
    BY <1>1, <1>5, <2>1, AllocateCases
  <2> QED
    BY <2>1, <2>2, DeclinedStep
<1>6. CASE ReallocateMove(ptr, size) /\ r.ptr # NULL
  <2> DEFINE q == r.ptr
             g == r.heap
             W == U \cup {BlockAt(g, q)}
  <2>1. /\ ptr \in InUse(held) /\ heap' = Move(g, ptr, q)
        /\ held' = [held EXCEPT ![ptr] = 0, ![q] = size]
        /\ content' = [content EXCEPT ![ptr] = NoContent, ![q] = content[ptr]]
        /\ stats' = TrackFree(TrackAlloc(stats, Charge(size)), Usable(g, ptr))
        /\ size > 0
    BY <1>1, <1>6 DEF ReallocateMove
  <2>2. HandedOut(heap, U, g, q, size)
    BY <1>1, <1>6, AllocateCases
  <2> HIDE DEF r, q, g, U
  <2>3. /\ Owned(heap', held', content') /\ Same(g, heap')
        /\ UsedBlocks(heap', held') \cup AllFree(heap') = W \cup AllFree(g)
    <3>1. HandedOut(heap, UsedBlocks(heap, held), g, q, size)
      BY <2>2 DEF U
    <3>2. Same(g, heap')
      BY <1>1, <2>1, <3>1, MoveOwned
    <3>3. Owned(heap', held', content')
      BY <1>1, <2>1, <3>1, MoveOwned
    <3>4. SameBlocks(heap, held, g, q, heap', held')
      BY <1>1, <2>1, <3>1, MoveOwned
    <3> QED
      BY <3>2, <3>3, <3>4 DEF SameBlocks, U
  <2>4. /\ Sound(g, W) /\ Regrown(heap, U, g, W) /\ Frame(heap, g) /\ g.bump \in Nat
    BY <2>2, GeometryAssumption DEF HandedOut, Sound, HeapType
  <2> HIDE DEF W
  <2>5. Tiled(g, W \cup AllFree(g)) /\ Headed(W \cup AllFree(g))
    BY <1>1, <2>4, LayoutStep
  <2>6. /\ Tiled(heap', UsedBlocks(heap', held') \cup AllFree(heap'))
        /\ Headed(UsedBlocks(heap', held') \cup AllFree(heap'))
    BY <2>3, <2>5, SameTiled
  <2>7. Usable(g, ptr) \in Int
    <3>1. Owned(g, [held EXCEPT ![q] = size], [content EXCEPT ![q] = g.mem[q]])
      BY <1>1, <2>1, <2>2, HandedOutOwned DEF U
    <3>2. ptr \in InUse([held EXCEPT ![q] = size])
      BY <1>1, <2>1 DEF InUse
    <3> QED
      BY <3>1, <3>2, UsableType
  <2>8. stats' \in StatsType
    <3>1. TrackAlloc(stats, Charge(size)) \in StatsType
      BY <1>1, ChargeType, TrackType
    <3> QED
      BY <2>1, <2>7, <3>1, TrackType
  <2>9. IInv'
    BY <2>3, <2>6, <2>8, NextState
  <2>10. Grows(heap, g)
    BY <1>1, <2>4, FrameGrows
  <2>11. Grows(heap, heap')
    BY <2>3, <2>10 DEF Grows, Same
  <2> QED
    BY <2>9, <2>11
<1> QED
  BY <1>2, <1>3, <1>4, <1>5, <1>6, AllocateStep DEF Reallocate, ReallocateRefused

-------------------------------------------------------------------------------
\* Every step keeps the invariant, and the pages assigned.
LEMMA NextIInv ==
    ASSUME NoWrap, IInv, [Next]_vars
    PROVE  IInv' /\ Grows(heap, heap')
<1>1. CASE \E size \in Size : Allocate(size)
  BY <1>1, AllocateStep
<1>2. CASE \E ptr \in Address \cup {NULL} : Free(ptr)
  BY <1>2, FreeStep
<1>3. CASE \E ptr \in Address \cup {NULL}, size \in Size : Reallocate(ptr, size)
  BY <1>3, ReallocateStep
<1>4. CASE \E ptr \in Address, v \in Value : Write(ptr, v)
  BY <1>4, WriteStep
<1>5. CASE UNCHANGED vars
  <2>1. IInv' /\ Same(heap, heap')
    BY <1>5 DEF vars, IInv, HeldBlocks, Held, BlockAt, Same
  <2> QED
    BY <2>1, Facts, SameGrows
<1> QED
  BY <1>1, <1>2, <1>3, <1>4, <1>5 DEF Next

\* The invariant holds of every state, when no request wraps.
LEMMA Invariance == ASSUME NoWrap PROVE Spec => []IInv
<1>1. IInv /\ [Next]_vars => IInv'
  BY NextIInv
<1> QED
  BY <1>1, InitIInv, PTL DEF Spec

\* The bump stays in the region, every list and every word keeps its type, and
\* every counter of the statistics its width.
THEOREM TypeCorrect == ASSUME NoWrap PROVE Spec => []TypeOK
<1>1. IInv => TypeOK
  BY Facts DEF IInv, TypeOK, StatsType, Sound
<1> QED
  BY <1>1, Invariance, PTL

\* No sequence of calls hands a block out twice, puts it in the list of another
\* class, or breaks a list.
THEOREM ListsStayIntact == ASSUME NoWrap PROVE Spec => []ListsIntact
<1>1. IInv => ListsIntact
  BY Facts DEF Sound, ListsIntact
<1> QED
  BY <1>1, Invariance, PTL

\* No call writes in a block in use, and a move keeps its content.
THEOREM ContentIsKept == ASSUME NoWrap PROVE Spec => []ContentKept
<1>1. IInv => ContentKept
  BY Facts DEF IInv, Owned, ContentKept
<1> QED
  BY <1>1, Invariance, PTL

\* The header of a large block in use tells the size last asked for.
THEOREM LargeSizesAreKept == ASSUME NoWrap PROVE Spec => []LargeSizesKept
<1>1. IInv => LargeSizesKept
  BY Facts DEF IInv, Owned, LargeSizesKept
<1> QED
  BY <1>1, Invariance, PTL

\* Every page handed out belongs to one block or page of blocks, all of them
\* free or in use: nothing of the region is lost.
THEOREM RegionIsAccounted == ASSUME NoWrap PROVE Spec => []RegionAccounted
<1>1. IInv => RegionAccounted
  BY DEF IInv, Tiled, RegionAccounted, HeadsOf, Heads
<1> QED
  BY <1>1, Invariance, PTL

\* pool_allocate of a size class fails only when the class is exhausted and the
\* region has no room for another page of it.
THEOREM SmallFailsWhenFull == ASSUME NoWrap PROVE Spec => []SmallFailsOnlyWhenFull
<1>1. ASSUME IInv, NEW size \in Size \ {0}, NEW c \in Class, c = SizeClass(size),
             PoolAllocate(heap, size).ptr = NULL
      PROVE  /\ heap.bump + PagesOf(c) > PAGES
             /\ \A p \in Heads : heap.page_class[p] = c =>
                   \A i \in 0 .. BlocksOf(c)-1 : <<p, i>> \in Held
  <2>1. c \in Kind /\ c # LARGE /\ Sound(heap, HeldBlocks) /\ heap.bump \in Nat
    BY <1>1, KindFacts, Facts
  <2>2. AllocateSmall(heap, c).ptr = NULL
    BY <1>1, <2>1 DEF PoolAllocate
  <2>3. Top(heap.lists[c]) = NULL
    BY <2>2 DEF AllocateSmall
  <2>4. FreeBlocks(heap, c) = {}
    BY <2>1, <2>3, EmptyTop
  <2>5. ~BumpFits(heap, PagesOf(c))
    <3> SUFFICES ASSUME BumpFits(heap, PagesOf(c)) PROVE FALSE
      OBVIOUS
    <3>1. Taken(heap, Bump(heap, PagesOf(c), c), PagesOf(c), c)
      BY <2>1, ClassFacts, BumpSound
    <3>2. <<heap.bump, 0>> \in Address
      BY <3>1, AddressFacts DEF Taken
    <3>3. <<heap.bump, 0>> = NULL
      BY <2>2, <2>3 DEF AllocateSmall
    <3> QED
      BY <3>2, <3>3, AddressFacts
  <2>6. heap.bump + PagesOf(c) > PAGES
    <3>1. /\ heap.bump \in 0 .. PAGES /\ PAGES \in Nat /\ WRAP_PAGES \in Nat
          /\ PagesOf(c) \in Nat /\ PagesOf(c) + PAGES < WRAP_PAGES
      BY <2>1, ClassFacts, GeometryAssumption DEF Sound, HeapType
    <3>2. heap.bump + PagesOf(c) \in Nat /\ heap.bump + PagesOf(c) < WRAP_PAGES
      BY <3>1
    <3>3. AfterBump(heap, PagesOf(c)) = heap.bump + PagesOf(c)
      BY <3>1, <3>2, NoRemainder DEF AfterBump
    <3> QED
      BY <2>5, <3>1, <3>2, <3>3 DEF BumpFits
  <2>7. ASSUME NEW p \in Heads, heap.page_class[p] = c, NEW i \in 0 .. BlocksOf(c)-1
        PROVE  <<p, i>> \in Held
    <3>1. <<p, i>> \in HeldBlocks \cup AllFree(heap)
      BY <1>1, <2>1, <2>7 DEF IInv, Tiled, Heads, HeadsOf, CutInto
    <3>2. <<p, i>> \notin AllFree(heap)
      <4> SUFFICES ASSUME NEW k \in Kind, <<p, i>> \in FreeBlocks(heap, k)
                   PROVE  FALSE
        BY DEF AllFree
      <4>1. heap.page_class[<<p, i>>[1]] = k
        BY <2>1 DEF Sound
      <4> QED
        BY <2>4, <2>7, <4>1
    <3>3. PICK a \in Held : <<p, i>> = BlockAt(heap, a)
      BY <3>1, <3>2 DEF HeldBlocks
    <3>4. a[1] = p
      BY <3>3 DEF BlockAt, BlockOf
    <3> QED
      BY <2>1, <2>7, <3>3, <3>4 DEF BlockAt
  <2> QED
    BY <2>6, <2>7
<1>2. IInv => SmallFailsOnlyWhenFull
  BY <1>1 DEF SmallFailsOnlyWhenFull
<1> QED
  BY <1>2, Invariance, PTL

\* The class of a page is fixed once it is assigned.
THEOREM ClassesAreFixed == ASSUME NoWrap PROVE Spec => PagesNeverChangeClass
<1>1. IInv /\ [Next]_vars =>
        [/\ heap'.bump >= heap.bump
         /\ \A p \in Page : heap.page_class[p] # UNASSIGNED =>
               heap'.page_class[p] = heap.page_class[p]]_vars
  BY NextIInv DEF Grows
<1> QED
  BY <1>1, Invariance, PTL DEF Spec, PagesNeverChangeClass

-------------------------------------------------------------------------------
(***************************************************************************)
(* The contract.  In bytes, an allocation lies within the pages of its     *)
(* block, apart from the others.                                           *)
(***************************************************************************)
\* Products of natural numbers are monotone.
LEMMA MulMono ==
    ASSUME NEW x \in Nat, NEW y \in Nat, NEW z \in Nat, x <= y
    PROVE  x * z <= y * z /\ x * z \in Nat /\ y * z \in Nat
  OBVIOUS

\* Distribution.
LEMMA MulAdd ==
    ASSUME NEW x \in Nat, NEW y \in Nat, NEW z \in Nat
    PROVE  (x + y) * z = x * z + y * z /\ (x + 1) * z = x * z + z
  OBVIOUS

\* Rounding down and up to a multiple of y.
LEMMA DivBounds ==
    ASSUME NEW x \in Nat, NEW y \in Nat \ {0}
    PROVE  /\ (x \div y) * y <= x /\ x \div y \in Nat
           /\ x <= ((x + y - 1) \div y) * y
  OBVIOUS

\* ByteOf, of any heap.
Byte(h, a) ==
    LET k == h.page_class[a[1]] IN
    a[1] * PAGE_SIZE + IF k = LARGE THEN META_SIZE ELSE a[2] * ClassSizes[k]

\* The invariant, of any heap and program.
Laid(h, hd, ct) ==
    /\ Owned(h, hd, ct)
    /\ Tiled(h, UsedBlocks(h, hd) \cup AllFree(h))
    /\ Headed(UsedBlocks(h, hd) \cup AllFree(h))

\* The n bytes at the pointer a lie in the pages taken with a[1].
Inside(h, a, n) ==
    /\ a[1] \in Page /\ SpanOf(h, a[1]) \in Nat
    /\ a[1] + SpanOf(h, a[1]) <= PAGES
    /\ Byte(h, a) \in Nat /\ n \in Nat \ {0}
    /\ a[1] * PAGE_SIZE <= Byte(h, a)
    /\ Byte(h, a) + n <= (a[1] + SpanOf(h, a[1])) * PAGE_SIZE

\* A pointer of a size class is one of the blocks its page is cut into.
LEMMA SlotInPage ==
    ASSUME NEW h, NEW hd, NEW ct, Laid(h, hd, ct), NEW a \in InUse(hd)
    PROVE  /\ a[1] \in HeadsOf(UsedBlocks(h, hd) \cup AllFree(h))
           /\ h.page_class[a[1]] \in Class => a[2] < BlocksOf(h.page_class[a[1]])
<1> DEFINE B == UsedBlocks(h, hd) \cup AllFree(h)
<1>1. a \in Address /\ BlockAt(h, a) \in B /\ BlockAt(h, a)[1] = a[1]
  BY InUseFacts DEF Laid
<1>2. a[1] \in HeadsOf(B)
  BY <1>1 DEF Laid, Headed
<1>3. ASSUME h.page_class[a[1]] \in Class PROVE a[2] < BlocksOf(h.page_class[a[1]])
  <2> DEFINE n == BlocksOf(h.page_class[a[1]])
  <2>1. h.page_class[a[1]] # LARGE
    BY <1>3, KindFacts
  <2>2. a \in B /\ a = <<a[1], a[2]>> /\ a[2] \in 0 .. SLOTS-1
    BY <1>1, <2>1, AddressFacts DEF BlockAt, Slot
  <2>3. \A i \in n .. SLOTS-1 : <<a[1], i>> \notin B
    BY <1>2, <2>1 DEF Laid, Tiled, CutInto
  <2>4. n \in Nat /\ SLOTS \in Nat
    BY <1>3, ClassFacts, GeometryAssumption
  <2> HIDE DEF n, B
  <2> QED
    BY <2>2, <2>3, <2>4 DEF n
<1> QED
  BY <1>2, <1>3

\* The bytes of an allocation lie in the block of its pointer.
LEMMA CellInside ==
    ASSUME NEW h, NEW hd, NEW ct, Laid(h, hd, ct), NEW a \in InUse(hd)
    PROVE  Inside(h, a, hd[a])
<1> DEFINE p == a[1]
           k == h.page_class[p]
           n == hd[a]
           span == SpanOf(h, p)
<1>1. /\ Owned(h, hd, ct) /\ a \in Address /\ p \in Page /\ p \in Nat
      /\ a[2] \in Nat /\ k \in Kind /\ n \in Size /\ n > 0
      /\ p + span <= h.bump /\ h.bump \in 0 .. PAGES
      /\ PAGE_SIZE \in Nat \ {0} /\ META_SIZE \in Nat /\ PAGES \in Nat
  <2>1. Owned(h, hd, ct) /\ a \in Address /\ k \in Kind
    BY InUseFacts DEF Laid
  <2>2. p \in Page /\ p \in Nat /\ a[2] \in Nat
    BY <2>1, AddressFacts DEF Page, Slot
  <2>3. n \in Size /\ n > 0
    BY <2>1 DEF Owned, InUse
  <2>4. p + span <= h.bump
    BY SlotInPage DEF Laid, Tiled
  <2>5. h.bump \in 0 .. PAGES
    BY <2>1 DEF Owned, Sound, HeapType
  <2> QED
    BY <2>1, <2>2, <2>3, <2>4, <2>5, GeometryAssumption
<1>2. k = SizeClass(n) /\ n \in Nat \ {0}
  <2>1. k = SizeClass(n)
    BY <1>1 DEF Owned
  <2>2. Size \subseteq Nat
    BY SizeAssumption
  <2> HIDE DEF n
  <2>3. n \in Nat \ {0}
    BY <1>1, <2>2
  <2> QED
    BY <2>1, <2>3
<1> HIDE DEF p, k, n, span
<1>3. CASE k = LARGE
  <2>1. span = h.total[p] /\ span \in Nat /\ LargePages(n) <= span
    <3>1. span = h.total[p] /\ LargePages(n) <= span
      BY <1>1, <1>3 DEF Owned, SpanOf, p, k, n, span
    <3>2. h.total[p] \in Nat
      BY <1>1 DEF Owned, Sound, HeapType
    <3> QED
      BY <3>1, <3>2
  <2>2. META_SIZE + n <= LargePages(n) * PAGE_SIZE /\ LargePages(n) \in Nat
    <3> DEFINE x == META_SIZE + n
    <3>1. x \in Nat
      BY <1>1, <1>2
    <3>2. LargePages(n) = (x + PAGE_SIZE - 1) \div PAGE_SIZE
      BY DEF LargePages
    <3> HIDE DEF x
    <3>3. (x + PAGE_SIZE - 1) \div PAGE_SIZE \in Nat
      BY <1>1, <3>1
    <3>4. x <= LargePages(n) * PAGE_SIZE /\ LargePages(n) \in Nat
      BY <1>1, <3>1, <3>2, <3>3, DivBounds
    <3> QED
      BY <3>4 DEF x
  <2>3. LargePages(n) * PAGE_SIZE <= span * PAGE_SIZE
    BY <1>1, <2>1, <2>2, MulMono
  <2>4. Byte(h, a) = p * PAGE_SIZE + META_SIZE
    BY <1>3 DEF Byte, p, k
  <2>5. (p + span) * PAGE_SIZE = p * PAGE_SIZE + span * PAGE_SIZE
    BY <1>1, <2>1, MulAdd
  <2>6. p * PAGE_SIZE \in Nat /\ span * PAGE_SIZE \in Nat /\ LargePages(n) * PAGE_SIZE \in Nat
    BY <1>1, <2>1, <2>2, MulMono
  <2>7. /\ Byte(h, a) \in Nat /\ p * PAGE_SIZE <= Byte(h, a)
        /\ Byte(h, a) + n <= (p + span) * PAGE_SIZE
    BY <1>1, <1>2, <2>2, <2>3, <2>4, <2>5, <2>6
  <2> QED
    BY <1>1, <1>2, <2>1, <2>7 DEF Inside, p, n, span
<1>4. CASE k \in Class
  <2> DEFINE s == ClassSizes[k]
             i == a[2]
  <2>1. /\ k # LARGE /\ s \in Nat \ {0} /\ PagesOf(k) \in Nat /\ BlocksOf(k) \in Nat
        /\ span = PagesOf(k)
    BY <1>4, KindFacts, ClassFacts DEF SpanOf, p, k, span
  <2>2. i < BlocksOf(k) /\ i \in Nat
    BY <1>1, <1>4, SlotInPage DEF p, k
  <2>3. n <= s
    BY <1>1, <1>2, <2>1, SizeAssumption
  <2>4. Byte(h, a) = p * PAGE_SIZE + i * s
    BY <2>1 DEF Byte, p, k
  <2>5. BlocksOf(k) * s <= span * PAGE_SIZE
    <3> DEFINE x == PagesOf(k) * PAGE_SIZE
    <3>1. x \in Nat
      BY <1>1, <2>1, MulMono
    <3>2. BlocksOf(k) = x \div s
      BY DEF BlocksOf
    <3> HIDE DEF x, s
    <3>3. (x \div s) * s <= x
      BY <2>1, <3>1, DivBounds
    <3> QED
      BY <2>1, <3>2, <3>3 DEF x
  <2> HIDE DEF s, i
  <2>6. (i + 1) * s <= BlocksOf(k) * s
    BY <2>1, <2>2, MulMono
  <2>7. (i + 1) * s = i * s + s
    BY <2>1, <2>2, MulAdd
  <2>8. (p + span) * PAGE_SIZE = p * PAGE_SIZE + span * PAGE_SIZE
    BY <1>1, <2>1, MulAdd
  <2>9. p * PAGE_SIZE \in Nat /\ span * PAGE_SIZE \in Nat /\ i * s \in Nat /\ BlocksOf(k) * s \in Nat
    BY <1>1, <2>1, <2>2, MulMono
  <2>10. /\ Byte(h, a) \in Nat /\ p * PAGE_SIZE <= Byte(h, a)
         /\ Byte(h, a) + n <= (p + span) * PAGE_SIZE
    BY <1>1, <1>2, <2>1, <2>3, <2>4, <2>5, <2>6, <2>7, <2>8, <2>9
  <2> QED
    BY <1>1, <1>2, <2>1, <2>10 DEF Inside, p, n, span
<1> QED
  BY <1>1, <1>3, <1>4 DEF Kind

\* The bytes of two allocations lie apart.
LEMMA CellsApart ==
    ASSUME NEW h, NEW hd, NEW ct, Laid(h, hd, ct),
           NEW a \in InUse(hd), NEW b \in InUse(hd), a # b, a[1] <= b[1]
    PROVE  \/ Byte(h, a) + hd[a] <= Byte(h, b)
           \/ Byte(h, b) + hd[b] <= Byte(h, a)
<1>1. Inside(h, a, hd[a]) /\ Inside(h, b, hd[b])
  BY CellInside
<1>2. /\ Owned(h, hd, ct) /\ a \in Address /\ b \in Address
      /\ h.page_class[a[1]] \in Kind
      /\ h.page_class[a[1]] = SizeClass(hd[a]) /\ h.page_class[b[1]] = SizeClass(hd[b])
      /\ hd[a] \in Size /\ hd[b] \in Size
  BY InUseFacts DEF Laid, Owned
<1>3. a[1] \in Nat /\ b[1] \in Nat /\ a[2] \in Nat /\ b[2] \in Nat /\ PAGE_SIZE \in Nat
  BY <1>2, AddressFacts, GeometryAssumption DEF Page, Slot
<1>4. CASE a[1] < b[1]
  <2> DEFINE e == a[1] + SpanOf(h, a[1])
  <2>1. b[1] >= e /\ e \in Nat
    <3>1. b[1] >= e
      BY <1>4, SlotInPage DEF Laid, Tiled
    <3> QED
      BY <1>1, <1>3, <3>1 DEF Inside
  <2> HIDE DEF e
  <2>2. e * PAGE_SIZE <= b[1] * PAGE_SIZE /\ e * PAGE_SIZE \in Nat /\ b[1] * PAGE_SIZE \in Nat
    BY <1>3, <2>1, MulMono
  <2>3. Byte(h, a) + hd[a] <= e * PAGE_SIZE /\ b[1] * PAGE_SIZE <= Byte(h, b)
    BY <1>1 DEF Inside, e
  <2>4. Byte(h, a) + hd[a] \in Nat /\ Byte(h, b) \in Nat
    BY <1>1 DEF Inside
  <2> QED
    BY <2>2, <2>3, <2>4
<1>5. CASE a[1] = b[1] /\ h.page_class[a[1]] = LARGE
  <2>1. a[2] = b[2]
    BY <1>2, <1>5 DEF Owned
  <2> QED
    BY <1>2, <1>5, <2>1, AddressFacts
<1>6. CASE a[1] = b[1] /\ h.page_class[a[1]] \in Class
  <2> DEFINE k == h.page_class[a[1]]
             s == ClassSizes[k]
  <2>1. s \in Nat /\ k # LARGE
    BY <1>6, KindFacts, ClassFacts
  <2>2. hd[a] <= s /\ hd[b] <= s
    BY <1>2, <1>6, <2>1, SizeAssumption
  <2>3. Byte(h, a) = a[1] * PAGE_SIZE + a[2] * s /\ Byte(h, b) = a[1] * PAGE_SIZE + b[2] * s
    BY <1>6, <2>1 DEF Byte
  <2>4. a[2] < b[2] \/ b[2] < a[2]
    <3>1. a[2] # b[2]
      BY <1>2, <1>6, AddressFacts
    <3> QED
      BY <1>3, <3>1
  <2>5. hd[a] \in Nat /\ hd[b] \in Nat
    BY <1>2, SizeAssumption
  <2> HIDE DEF s, k
  <2>6. \A i, j \in Nat : i < j => i * s + s <= j * s
    <3> SUFFICES ASSUME NEW i \in Nat, NEW j \in Nat, i < j PROVE i * s + s <= j * s
      OBVIOUS
    <3>1. (i + 1) * s <= j * s /\ (i + 1) * s = i * s + s
      BY <2>1, MulMono, MulAdd
    <3> QED
      BY <3>1
  <2>7. a[1] * PAGE_SIZE \in Nat /\ a[2] * s \in Nat /\ b[2] * s \in Nat
    BY <1>3, <2>1, MulMono
  <2>8. a[2] * s + s <= b[2] * s \/ b[2] * s + s <= a[2] * s
    BY <1>3, <2>4, <2>6
  <2> QED
    BY <2>1, <2>2, <2>3, <2>5, <2>7, <2>8
<1> QED
  BY <1>2, <1>3, <1>4, <1>5, <1>6 DEF Kind

\* The allocation of the contract behind the pointer a, and all of them.
Cell(h, hd, a) == [at |-> Byte(h, a), size |-> hd[a], data |-> Shown(h.mem[a])]
Cells(h, hd) == {Cell(h, hd, a) : a \in InUse(hd)}

\* An allocation is one of the contract, beside any of the others.
LEMMA CellFits ==
    ASSUME NEW h, NEW hd, NEW ct, Laid(h, hd, ct), NEW a \in InUse(hd), NEW S,
           \A x \in S : \E b \in InUse(hd) \ {a} : x = Cell(h, hd, b)
    PROVE  Contract!Fits(Cell(h, hd, a), S)
<1> DEFINE x == Cell(h, hd, a)
<1>1. /\ Inside(h, a, hd[a]) /\ hd[a] \in Size /\ PAGE_SIZE \in Nat /\ PAGES \in Nat
  BY CellInside, GeometryAssumption DEF Laid, Owned, InUse
<1>2. x.at = Byte(h, a) /\ x.size = hd[a] /\ x.data = Shown(h.mem[a])
  BY DEF Cell
<1>3. x.size \in Size \ {0} /\ x.data \in Written \cup {Number(0)}
  BY <1>1, <1>2 DEF Inside, Shown
<1>4. x.at \in Nat /\ x.size \in Nat /\ x.at + x.size <= PAGES * PAGE_SIZE
  <2> DEFINE e == a[1] + SpanOf(h, a[1])
  <2>1. e \in Nat /\ e <= PAGES
    BY <1>1 DEF Inside, Page
  <2>2. Byte(h, a) + hd[a] <= e * PAGE_SIZE /\ Byte(h, a) \in Nat /\ hd[a] \in Nat
    BY <1>1 DEF Inside
  <2> HIDE DEF e
  <2>3. e * PAGE_SIZE <= PAGES * PAGE_SIZE /\ e * PAGE_SIZE \in Nat /\ PAGES * PAGE_SIZE \in Nat
    BY <1>1, <2>1, MulMono
  <2> QED
    BY <1>2, <2>2, <2>3
<1>5. Contract!Range(x) \subseteq 0 .. PAGES * PAGE_SIZE - 1
  <2>1. PAGES * PAGE_SIZE \in Nat
    BY <1>1, MulMono
  <2> QED
    BY <1>4, <2>1 DEF Contract!Range
<1>6. ASSUME NEW y \in S PROVE Contract!Range(x) \cap Contract!Range(y) = {}
  <2>1. PICK b \in InUse(hd) : b # a /\ y = Cell(h, hd, b)
    OBVIOUS
  <2>2. /\ Inside(h, b, hd[b]) /\ a[1] \in Nat /\ b[1] \in Nat
        /\ y.at = Byte(h, b) /\ y.size = hd[b]
    BY <1>1, <2>1, CellInside DEF Cell, Inside, Page
  <2>3. \/ Byte(h, a) + hd[a] <= Byte(h, b)
        \/ Byte(h, b) + hd[b] <= Byte(h, a)
    BY <2>1, <2>2, CellsApart
  <2>4. y.at \in Nat /\ y.size \in Nat
    BY <2>2 DEF Inside
  <2> HIDE DEF x
  <2>5. x.at + x.size <= y.at \/ y.at + y.size <= x.at
    BY <1>2, <2>2, <2>3
  <2> QED
    BY <1>4, <2>4, <2>5 DEF Contract!Range
<1> QED
  BY <1>3, <1>5, <1>6 DEF Contract!Fits, Contract!Disjoint

\* Two pointers have two allocations.
LEMMA CellInjective ==
    ASSUME NEW h, NEW hd, NEW ct, Laid(h, hd, ct),
           NEW a \in InUse(hd), NEW b \in InUse(hd), Cell(h, hd, a) = Cell(h, hd, b)
    PROVE  a = b
<1> SUFFICES ASSUME a # b PROVE FALSE
  OBVIOUS
<1>1. Byte(h, a) = Byte(h, b) /\ hd[a] = hd[b]
  BY DEF Cell
<1>2. /\ Byte(h, a) \in Nat /\ hd[a] \in Nat \ {0}
      /\ a[1] \in Nat /\ b[1] \in Nat
  BY CellInside DEF Inside, Page
<1>3. \/ Byte(h, a) + hd[a] <= Byte(h, b)
      \/ Byte(h, b) + hd[b] <= Byte(h, a)
  BY <1>2, CellsApart
<1> QED
  BY <1>1, <1>2, <1>3

\* The allocation of a pointer that a step leaves alone.
Kept(a) == a \in InUse(held) /\ held'[a] = held[a] /\ content'[a] = content[a]

\* A pointer left alone has the same bytes, with the same content.
LEMMA CellKept ==
    ASSUME IInv, IInv', Grows(heap, heap'), NEW a, Kept(a)
    PROVE  a \in InUse(held') /\ Cell(heap', held', a) = Cell(heap, held, a)
<1>1. Owned(heap, held, content) /\ Owned(heap', held', content')
  BY DEF IInv
<1>2. a \in InUse(held) /\ a \in InUse(held') /\ held'[a] = held[a]
  BY DEF Kept, InUse
<1>3. a[1] \in Page /\ heap.page_class[a[1]] # UNASSIGNED
  BY <1>1, <1>2, InUseFacts, AddressFacts, KindFacts
<1>4. heap'.page_class[a[1]] = heap.page_class[a[1]]
  BY <1>3 DEF Grows
<1>5. heap'.mem[a] = heap.mem[a]
  BY <1>1, <1>2 DEF Owned, Kept
<1> QED
  BY <1>2, <1>4, <1>5 DEF Cell, Byte

\* The allocations, before a step and after it.
LEMMA LiveFacts ==
    ASSUME IInv
    PROVE  Laid(heap, held, content) /\ Allocations = Cells(heap, held)
<1>1. Laid(heap, held, content)
  BY Facts DEF IInv, Laid
<1> QED
  BY <1>1, Facts DEF Allocations, Cells, Cell, ByteOf, Byte

\* The same after a step.
LEMMA LiveFactsNext ==
    ASSUME IInv'
    PROVE  Laid(heap', held', content') /\ Allocations' = Cells(heap', held')
<1>1. HeldBlocks' = UsedBlocks(heap', held') /\ Held' = InUse(held')
  BY DEF HeldBlocks, UsedBlocks, Held, InUse
<1>2. Laid(heap', held', content')
  BY <1>1 DEF IInv, Laid
<1> QED
  BY <1>1, <1>2 DEF Allocations, Cells, Cell, ByteOf, Byte

\* A step that leaves the pointers in use alone.
LEMMA StutterLive ==
    ASSUME IInv, IInv', Grows(heap, heap'), InUse(held') = InUse(held),
           \A a \in InUse(held) : Kept(a)
    PROVE  Allocations' = Allocations
<1>1. \A a \in InUse(held) : Cell(heap', held', a) = Cell(heap, held, a)
  BY CellKept
<1> QED
  BY <1>1, LiveFacts, LiveFactsNext DEF Cells

\* A pointer more.
LEMMA AllocateLive ==
    ASSUME IInv, IInv', Grows(heap, heap'), NEW q, q \notin InUse(held),
           InUse(held') = InUse(held) \cup {q}, \A a \in InUse(held) : Kept(a)
    PROVE  Contract!Next
<1> DEFINE x == Cell(heap', held', q)
<1>1. \A a \in InUse(held) : Cell(heap', held', a) = Cell(heap, held, a)
  BY CellKept
<1>2. Allocations = Cells(heap, held) /\ Allocations' = Cells(heap', held')
  BY LiveFacts, LiveFactsNext
<1>3. Allocations' = Allocations \cup {x}
  BY <1>1, <1>2 DEF Cells
<1>4. \A y \in Allocations : \E b \in InUse(held') \ {q} : y = Cell(heap', held', b)
  BY <1>1, <1>2 DEF Cells
<1>5. Contract!Fits(x, Allocations)
  BY <1>4, LiveFactsNext, CellFits
<1> HIDE DEF x
<1>6. Contract!Allocate(x)
  BY <1>3, <1>5 DEF Contract!Allocate
<1> QED
  BY <1>3, <1>6 DEF Contract!Next

\* A pointer less.
LEMMA FreeLive ==
    ASSUME IInv, IInv', Grows(heap, heap'), NEW ptr \in InUse(held),
           InUse(held') = InUse(held) \ {ptr},
           \A a \in InUse(held) : a # ptr => Kept(a)
    PROVE  Contract!Next
<1> DEFINE x == Cell(heap, held, ptr)
<1>1. \A a \in InUse(held) : a # ptr => Cell(heap', held', a) = Cell(heap, held, a)
  BY CellKept
<1>2. Allocations = Cells(heap, held) /\ Allocations' = Cells(heap', held')
  BY LiveFacts, LiveFactsNext
<1>3. \A a \in InUse(held) : Cell(heap, held, a) = x => a = ptr
  BY LiveFacts, CellInjective
<1>4. Allocations' = Allocations \ {x} /\ x \in Allocations
  BY <1>1, <1>2, <1>3 DEF Cells
<1> HIDE DEF x
<1> QED
  BY <1>4 DEF Contract!Next, Contract!Free

\* A pointer in the place of another, with the content of that one.
LEMMA ReallocateLive ==
    ASSUME IInv, IInv', Grows(heap, heap'), NEW ptr \in InUse(held), NEW q,
           q \notin InUse(held) \ {ptr},
           InUse(held') = (InUse(held) \ {ptr}) \cup {q},
           content'[q] = content[ptr],
           \A a \in InUse(held) : a # ptr => Kept(a)
    PROVE  Contract!Next
<1> DEFINE x == Cell(heap, held, ptr)
           y == Cell(heap', held', q)
<1>1. \A a \in InUse(held) : a # ptr => Cell(heap', held', a) = Cell(heap, held, a)
  BY CellKept
<1>2. Allocations = Cells(heap, held) /\ Allocations' = Cells(heap', held')
  BY LiveFacts, LiveFactsNext
<1>3. \A a \in InUse(held) : Cell(heap, held, a) = x => a = ptr
  BY LiveFacts, CellInjective
<1>4. Allocations' = (Allocations \ {x}) \cup {y} /\ x \in Allocations
  BY <1>1, <1>2, <1>3 DEF Cells
<1>5. \A z \in Allocations \ {x} : \E b \in InUse(held') \ {q} : z = Cell(heap', held', b)
  BY <1>1, <1>2 DEF Cells
<1>6. Contract!Fits(y, Allocations \ {x})
  BY <1>5, LiveFactsNext, CellFits
<1>7. heap'.mem[q] = content'[q] /\ heap.mem[ptr] = content[ptr]
  BY LiveFacts, LiveFactsNext DEF Laid, Owned
<1>8. y.data = x.data
  BY <1>7 DEF Cell
<1> HIDE DEF x, y
<1>9. Contract!Reallocate(x, y)
  BY <1>4, <1>6, <1>8 DEF Contract!Reallocate
<1> QED
  BY <1>4, <1>9 DEF Contract!Next

\* A pointer whose content changes.
LEMMA WriteLive ==
    ASSUME IInv, IInv', Grows(heap, heap'), NEW ptr, NEW v \in Value, Write(ptr, v)
    PROVE  Contract!Next
<1> DEFINE x == Cell(heap, held, ptr)
           y == Cell(heap', held', ptr)
<1>1. /\ ptr \in InUse(held) /\ held' = held
      /\ content' = [content EXCEPT ![ptr] = Data(v)]
      /\ content \in [Address -> Word] /\ ptr \in Address
  BY Facts DEF Write, InUse
<1>2. \A a \in InUse(held) : a # ptr => Kept(a)
  BY <1>1 DEF Kept
<1>3. \A a \in InUse(held) : a # ptr => Cell(heap', held', a) = Cell(heap, held, a)
  BY <1>2, CellKept
<1>4. Allocations = Cells(heap, held) /\ Allocations' = Cells(heap', held')
  BY LiveFacts, LiveFactsNext
<1>5. \A a \in InUse(held) : Cell(heap, held, a) = x => a = ptr
  BY <1>1, LiveFacts, CellInjective
<1>6. Allocations' = (Allocations \ {x}) \cup {y} /\ x \in Allocations
  BY <1>1, <1>3, <1>4, <1>5 DEF Cells
<1>7. heap'.page_class[ptr[1]] = heap.page_class[ptr[1]] /\ heap'.mem[ptr] = Data(v)
  <2>1. heap.page_class[ptr[1]] # UNASSIGNED /\ ptr[1] \in Page
    BY <1>1, LiveFacts, InUseFacts, AddressFacts, KindFacts DEF Laid
  <2>2. heap'.mem[ptr] = content'[ptr]
    BY <1>1, LiveFactsNext DEF Laid, Owned
  <2> QED
    BY <1>1, <2>1, <2>2 DEF Grows
<1>8. Data(v) \in Written
  BY DEF Written
<1>9. y = [x EXCEPT !.data = Data(v)]
  BY <1>1, <1>7, <1>8 DEF Cell, Byte, Shown
<1> HIDE DEF x, y
<1> QED
  BY <1>6, <1>8, <1>9 DEF Contract!Next, Contract!Write

\* pool_allocate, as the contract sees it.
LEMMA AllocateContract ==
    ASSUME NoWrap, IInv, NEW size \in Size, Allocate(size)
    PROVE  Contract!Next \/ Allocations' = Allocations
<1> DEFINE r == PoolAllocate(heap, size)
<1>1. IInv' /\ Grows(heap, heap')
  BY AllocateStep
<1>2. CASE r.ptr = NULL
  <2>1. held' = held /\ content' = content
    BY <1>2 DEF Allocate
  <2>2. \A a \in InUse(held) : Kept(a)
    BY <2>1 DEF Kept
  <2> QED
    BY <1>1, <2>1, <2>2, StutterLive
<1>3. CASE r.ptr # NULL
  <2> DEFINE q == r.ptr
  <2>1. /\ held' = [held EXCEPT ![q] = size] /\ size \in Nat /\ size > 0
        /\ content' = [content EXCEPT ![q] = r.heap.mem[q]]
    BY <1>3, SizeAssumption DEF Allocate, PoolAllocate
  <2>2. HandedOut(heap, UsedBlocks(heap, held), r.heap, q, size)
    BY <1>3, Facts, AllocateCases
  <2> HIDE DEF r, q
  <2>3. q \in Address /\ q \notin InUse(held)
    BY <2>1, <2>2, HandedOutOwned DEF IInv
  <2>4. held \in [Address -> Size] /\ content \in [Address -> Word]
    BY Facts
  <2>5. InUse(held') = InUse(held) \cup {q}
    BY <2>1, <2>3, <2>4 DEF InUse
  <2>6. \A a \in InUse(held) : Kept(a)
    BY <2>1, <2>3, <2>4 DEF Kept, InUse
  <2> QED
    BY <1>1, <2>3, <2>5, <2>6, AllocateLive
<1> QED
  BY <1>2, <1>3

\* pool_free, as the contract sees it.
LEMMA FreeContract ==
    ASSUME NoWrap, IInv, NEW ptr, Free(ptr)
    PROVE  Contract!Next \/ Allocations' = Allocations
<1>1. IInv' /\ Grows(heap, heap')
  BY FreeStep
<1>2. held \in [Address -> Size] /\ content \in [Address -> Word]
  BY Facts
<1>3. CASE ptr = NULL
  <2>1. held' = held /\ \A a \in InUse(held) : Kept(a)
    BY <1>3 DEF Free, Kept
  <2> QED
    BY <1>1, <2>1, StutterLive
<1>4. CASE ptr # NULL
  <2>1. /\ ptr \in InUse(held) /\ held' = [held EXCEPT ![ptr] = 0]
        /\ content' = [content EXCEPT ![ptr] = NoContent]
    BY <1>4, Facts DEF Free
  <2>2. InUse(held') = InUse(held) \ {ptr}
    BY <1>2, <2>1 DEF InUse
  <2>3. \A a \in InUse(held) : a # ptr => Kept(a)
    BY <1>2, <2>1 DEF Kept, InUse
  <2> QED
    BY <1>1, <2>1, <2>2, <2>3, FreeLive
<1> QED
  BY <1>3, <1>4

\* pool_reallocate, as the contract sees it: wherever the block ends up, its
\* content is that of the block before.
LEMMA ReallocateContract ==
    ASSUME NoWrap, IInv, NEW ptr, NEW size \in Size, Reallocate(ptr, size)
    PROVE  Contract!Next \/ Allocations' = Allocations
<1> DEFINE r == PoolAllocate(heap, size)
<1>1. IInv' /\ Grows(heap, heap')
  BY ReallocateStep
<1>2. held \in [Address -> Size] /\ content \in [Address -> Word] /\ Held = InUse(held)
  BY Facts
<1>3. CASE held' = held /\ content' = content
  <2>1. \A a \in InUse(held) : Kept(a)
    BY <1>3 DEF Kept
  <2> QED
    BY <1>1, <1>3, <2>1, StutterLive
<1>4. CASE /\ ptr \in InUse(held) /\ size > 0
           /\ held' = [held EXCEPT ![ptr] = size] /\ content' = content
  <2>1. InUse(held') = (InUse(held) \ {ptr}) \cup {ptr}
    BY <1>2, <1>4 DEF InUse
  <2>2. \A a \in InUse(held) : a # ptr => Kept(a)
    BY <1>2, <1>4 DEF Kept, InUse
  <2> QED
    BY <1>1, <1>4, <2>1, <2>2, ReallocateLive
<1>5. CASE ReallocateMove(ptr, size) /\ r.ptr # NULL
  <2> DEFINE q == r.ptr
  <2>1. /\ ptr \in InUse(held) /\ size > 0
        /\ held' = [held EXCEPT ![ptr] = 0, ![q] = size]
        /\ content' = [content EXCEPT ![ptr] = NoContent, ![q] = content[ptr]]
    BY <1>2, <1>5 DEF ReallocateMove
  <2>2. HandedOut(heap, UsedBlocks(heap, held), r.heap, q, size)
    BY <1>5, Facts, AllocateCases
  <2> HIDE DEF r, q
  <2>3. q \in Address /\ q \notin InUse(held)
    BY <2>1, <2>2, HandedOutOwned DEF IInv
  <2>4. InUse(held') = (InUse(held) \ {ptr}) \cup {q}
    BY <1>2, <2>1, <2>3 DEF InUse
  <2>5. content'[q] = content[ptr]
    BY <1>2, <2>1, <2>3
  <2>6. \A a \in InUse(held) : a # ptr => Kept(a)
    BY <1>2, <2>1, <2>3 DEF Kept, InUse
  <2> QED
    BY <1>1, <2>1, <2>3, <2>4, <2>5, <2>6, ReallocateLive
<1>6. CASE ptr = NULL /\ Allocate(size)
  BY <1>6, AllocateContract
<1>7. \/ held' = held /\ content' = content
      \/ /\ ptr \in InUse(held) /\ size > 0
         /\ held' = [held EXCEPT ![ptr] = size] /\ content' = content
      \/ ReallocateMove(ptr, size) /\ r.ptr # NULL
      \/ ptr = NULL /\ Allocate(size)
  <2>1. CASE ReallocateRefused(ptr, size)
    BY <2>1 DEF ReallocateRefused, vars
  <2>2. CASE ReallocateSameClass(ptr, size)
    BY <1>2, <2>2 DEF ReallocateSameClass
  <2>3. CASE ReallocateLargeInPlace(ptr, size)
    BY <1>2, <2>3 DEF ReallocateLargeInPlace
  <2>4. CASE ReallocateMove(ptr, size)
    BY <2>4 DEF ReallocateMove
  <2> QED
    BY <2>1, <2>2, <2>3, <2>4 DEF Reallocate
<1> QED
  BY <1>3, <1>4, <1>5, <1>6, <1>7

\* The pool implements its contract: every allocation is a range of bytes of the
\* region that overlaps no other, keeps what its owner wrote until it is freed,
\* through reallocations too, and is not touched by a call that fails.
THEOREM ImplementsContract == ASSUME NoWrap PROVE Spec => KeepsContract
<1>1. Init => Contract!Init
  BY DEF Init, Contract!Init, Allocations, Held
<1>2. IInv /\ [Next]_vars => [Contract!Next]_Allocations
  <2> SUFFICES ASSUME IInv, [Next]_vars
               PROVE  Contract!Next \/ Allocations' = Allocations
    OBVIOUS
  <2>1. CASE \E size \in Size : Allocate(size)
    BY <2>1, AllocateContract
  <2>2. CASE \E ptr \in Address \cup {NULL} : Free(ptr)
    BY <2>2, FreeContract
  <2>3. CASE \E ptr \in Address \cup {NULL}, size \in Size : Reallocate(ptr, size)
    BY <2>3, ReallocateContract
  <2>4. CASE \E ptr \in Address, v \in Value : Write(ptr, v)
    <3>1. PICK ptr \in Address, v \in Value : Write(ptr, v)
      BY <2>4
    <3>2. IInv' /\ Grows(heap, heap')
      BY <3>1, WriteStep
    <3> QED
      BY <3>1, <3>2, WriteLive
  <2>5. CASE UNCHANGED vars
    BY <2>5 DEF vars, Allocations, Held, ByteOf
  <2> QED
    BY <2>1, <2>2, <2>3, <2>4, <2>5 DEF Next
<1> QED
  BY <1>1, <1>2, Invariance, PTL DEF Spec, KeepsContract, Contract!Spec

-------------------------------------------------------------------------------
(***************************************************************************)
(* The statistics.  The counters wrap, so they agree with what is in use   *)
(* up to a multiple of COUNTER.                                            *)
(***************************************************************************)
Agree(x, y) == \E k \in Int : x = y + k * COUNTER

\* What the pointers in use are charged together.
Charges(hd) == [a \in Address |-> Charge(hd[a])]
Bill(hd) == Sum(Charges(hd), InUse(hd))

NoStats == [allocs |-> 0, frees |-> 0, bytes |-> 0]

Tally(st, hd) ==
    /\ st \in StatsType
    /\ IF TRACKING THEN /\ Agree(st.allocs - st.frees, Cardinality(InUse(hd)))
                        /\ Agree(st.bytes, Bill(hd))
                   ELSE st = NoStats

\* Agreement adds up, and survives a wrap.
LEMMA AgreeFacts ==
    ASSUME NEW x \in Int, NEW y \in Int
    PROVE  /\ Agree(x, x)
           /\ Agree(x % COUNTER, x)
           /\ Agree(x, y) => Agree(-x, -y)
           /\ \A z \in Int : Agree(x, y) /\ Agree(y, z) => Agree(x, z)
<1>1. COUNTER \in Nat \ {0}
  BY OtherAssumption
<1>2. Agree(x, x)
  <2>1. x = x + 0 * COUNTER
    BY <1>1
  <2> QED
    BY <2>1 DEF Agree
<1>3. Agree(x % COUNTER, x)
  <2> DEFINE k == 0 - (x \div COUNTER)
  <2>1. k \in Int /\ x % COUNTER = x + k * COUNTER
    BY <1>1
  <2> QED
    BY <2>1 DEF Agree
<1>5. ASSUME Agree(x, y) PROVE Agree(-x, -y)
  <2>1. PICK k \in Int : x = y + k * COUNTER
    BY <1>5 DEF Agree
  <2>2. -x = -y + (-k) * COUNTER /\ -k \in Int
    BY <1>1, <2>1
  <2> QED
    BY <2>2 DEF Agree
<1>6. ASSUME NEW z \in Int, Agree(x, y), Agree(y, z) PROVE Agree(x, z)
  <2>1. PICK k \in Int : x = y + k * COUNTER
    BY <1>6 DEF Agree
  <2>2. PICK l \in Int : y = z + l * COUNTER
    BY <1>6 DEF Agree
  <2>3. (k + l) * COUNTER = k * COUNTER + l * COUNTER
        /\ k * COUNTER \in Int /\ l * COUNTER \in Int
    BY <1>1
  <2>4. x = z + (k + l) * COUNTER /\ k + l \in Int
    BY <2>1, <2>2, <2>3
  <2> QED
    BY <2>4 DEF Agree
<1> QED
  BY <1>2, <1>3, <1>5, <1>6

\* The same is added on both sides, or taken away.
LEMMA AgreeShift ==
    ASSUME NEW x \in Int, NEW y \in Int, NEW z \in Int, Agree(x, y)
    PROVE  Agree(x + z, y + z) /\ Agree(x - z, y - z)
<1>1. PICK k \in Int : x = y + k * COUNTER
  BY DEF Agree
<1>2. k * COUNTER \in Int
  BY OtherAssumption
<1>3. x + z = (y + z) + k * COUNTER /\ x - z = (y - z) + k * COUNTER
  BY <1>1, <1>2
<1> QED
  BY <1>3 DEF Agree

\* Numbers that agree have the same remainder.
LEMMA AgreeRemainder ==
    ASSUME NEW x \in Int, NEW y \in Int, Agree(x, y)
    PROVE  x % COUNTER = y % COUNTER
<1> DEFINE C == COUNTER
           r == x % C
           s == y % C
<1>1. C \in Nat \ {0}
  BY OtherAssumption
<1>2. r \in 0 .. C-1 /\ s \in 0 .. C-1
  BY <1>1
<1>3. Agree(r, s)
  <2>1. Agree(r, x) /\ Agree(s, y)
    BY AgreeFacts
  <2>2. PICK k \in Int : s = y + k * C
    BY <2>1 DEF Agree
  <2>3. y = s + (-k) * C /\ -k \in Int
    BY <1>1, <2>2
  <2> HIDE DEF r, s
  <2>4. Agree(y, s)
    BY <2>3 DEF Agree
  <2>5. r \in Int /\ s \in Int
    BY <1>1, <1>2
  <2> QED
    BY <2>1, <2>4, <2>5, AgreeFacts
<1> HIDE DEF r, s
<1>4. PICK k \in Int : r = s + k * C
  BY <1>3 DEF Agree
<1> HIDE DEF C
<1>5. k >= 1 => k * C >= C
  BY <1>1
<1>6. k <= -1 => k * C <= -C
  BY <1>1
<1>7. k * C \in Int /\ (k = 0 => k * C = 0)
  BY <1>1
<1>8. k = 0
  BY <1>1, <1>2, <1>4, <1>5, <1>6, <1>7
<1>9. r = s
  BY <1>1, <1>2, <1>4, <1>7, <1>8
<1> QED
  BY <1>9 DEF C, r, s

\* There are finitely many addresses.
LEMMA InUseFinite ==
    ASSUME NEW hd
    PROVE  IsFiniteSet(InUse(hd)) /\ IsFiniteSet(Address) /\ InUse(hd) \subseteq Address
<1>1. IsFiniteSet(Page) /\ IsFiniteSet(Slot)
  <2>1. 0 \in Int /\ PAGES-1 \in Int /\ SLOTS-1 \in Int
    BY GeometryAssumption
  <2> QED
    BY <2>1, FS_Interval DEF Page, Slot
<1>2. IsFiniteSet(Address)
  BY <1>1, FS_Product DEF Address
<1>3. InUse(hd) \subseteq Address
  BY DEF InUse
<1> QED
  BY <1>2, <1>3, FS_Subset

\* The bill is a number.
LEMMA BillType ==
    ASSUME NEW hd \in [Address -> Size]
    PROVE  /\ \A a \in Address : Charges(hd)[a] = Charge(hd[a]) /\ Charges(hd)[a] \in Int
           /\ Bill(hd) \in Int /\ Cardinality(InUse(hd)) \in Nat
<1>1. \A a \in Address : Charges(hd)[a] = Charge(hd[a]) /\ Charges(hd)[a] \in Int
  BY ChargeType DEF Charges
<1>2. IsFiniteSet(InUse(hd)) /\ InUse(hd) \subseteq Address
  BY InUseFinite
<1>3. \A a \in InUse(hd) : Charges(hd)[a] \in Int
  BY <1>1, <1>2
<1>4. Bill(hd) \in Int
  BY <1>2, <1>3, SumType DEF Bill
<1> QED
  BY <1>1, <1>2, <1>4, FS_CardinalityType

\* The program holds hd2 instead of hd: the size of one pointer differs.
Differ(hd, hd2, a, size) == /\ hd \in [Address -> Size] /\ hd2 \in [Address -> Size]
                            /\ a \in Address /\ hd2[a] = size
                            /\ \A b \in Address \ {a} : hd2[b] = hd[b]

\* What the calls do to held.
LEMMA DifferIs ==
    ASSUME NEW hd \in [Address -> Size], NEW a \in Address, NEW size \in Size
    PROVE  Differ(hd, [hd EXCEPT ![a] = size], a, size)
  BY DEF Differ

\* A pointer is handed out.
LEMMA BillAdds ==
    ASSUME NEW hd, NEW hd2, NEW a, NEW size, Differ(hd, hd2, a, size), hd[a] = 0, size > 0
    PROVE  /\ Bill(hd2) = Bill(hd) + Charge(size)
           /\ Cardinality(InUse(hd2)) = Cardinality(InUse(hd)) + 1
<1>1. /\ hd \in [Address -> Size] /\ hd2 \in [Address -> Size]
      /\ a \in Address /\ hd2[a] = size
      /\ \A b \in Address \ {a} : hd2[b] = hd[b]
  BY DEF Differ
<1>2. InUse(hd2) = InUse(hd) \cup {a} /\ a \notin InUse(hd)
  BY <1>1 DEF InUse
<1>3. IsFiniteSet(InUse(hd)) /\ InUse(hd) \subseteq Address
  BY InUseFinite
<1>4. \A b \in InUse(hd) \cup {a} : Charges(hd2)[b] \in Int
  BY <1>1, <1>3, BillType
<1>5. Sum(Charges(hd2), InUse(hd) \cup {a}) = Charges(hd2)[a] + Sum(Charges(hd2), InUse(hd))
  BY <1>2, <1>3, <1>4, SumAdd
<1>6. \A b \in InUse(hd) : Charges(hd2)[b] = Charges(hd)[b]
  BY <1>1, <1>2, <1>3 DEF Charges
<1>7. Sum(Charges(hd2), InUse(hd)) = Sum(Charges(hd), InUse(hd))
  BY <1>3, <1>6, SumAgree
<1>8. Charges(hd2)[a] = Charge(size) /\ Bill(hd) \in Int /\ Charges(hd2)[a] \in Int
  BY <1>1, BillType
<1>9. Bill(hd2) = Bill(hd) + Charge(size)
  BY <1>2, <1>5, <1>7, <1>8 DEF Bill
<1>10. Cardinality(InUse(hd2)) = Cardinality(InUse(hd)) + 1
  BY <1>2, <1>3, FS_AddElement
<1> QED
  BY <1>9, <1>10

\* A pointer is given back.
LEMMA BillDrops ==
    ASSUME NEW hd, NEW hd2, NEW a \in InUse(hd), Differ(hd, hd2, a, 0)
    PROVE  /\ Bill(hd2) = Bill(hd) - Charge(hd[a])
           /\ Cardinality(InUse(hd2)) = Cardinality(InUse(hd)) - 1
<1>1. /\ Differ(hd2, hd, a, hd[a]) /\ hd2[a] = 0
      /\ hd \in [Address -> Size] /\ hd2 \in [Address -> Size]
  BY DEF Differ
<1>2. hd[a] \in Size /\ hd[a] > 0
  BY <1>1 DEF InUse
<1>3. /\ Bill(hd) = Bill(hd2) + Charge(hd[a])
      /\ Cardinality(InUse(hd)) = Cardinality(InUse(hd2)) + 1
  BY <1>1, <1>2, BillAdds
<1>4. Bill(hd2) \in Int /\ Cardinality(InUse(hd2)) \in Nat /\ Charge(hd[a]) \in Int
  BY <1>1, <1>2, BillType, ChargeType
<1> QED
  BY <1>3, <1>4

\* A pointer is resized.
LEMMA BillReplaces ==
    ASSUME NEW hd, NEW hd2, NEW a \in InUse(hd), NEW size, size > 0,
           Differ(hd, hd2, a, size)
    PROVE  /\ Bill(hd2) = Bill(hd) - Charge(hd[a]) + Charge(size)
           /\ InUse(hd2) = InUse(hd)
<1> DEFINE hd0 == [hd EXCEPT ![a] = 0]
<1>1. Differ(hd, hd0, a, 0) /\ Differ(hd0, hd2, a, size) /\ hd0[a] = 0
  BY SizeAssumption DEF Differ
<1> HIDE DEF hd0
<1>2. Bill(hd0) = Bill(hd) - Charge(hd[a])
  BY <1>1, BillDrops
<1>3. Bill(hd2) = Bill(hd0) + Charge(size)
  BY <1>1, BillAdds
<1>4. InUse(hd2) = InUse(hd)
  BY DEF InUse, Differ
<1> QED
  BY <1>2, <1>3, <1>4

-------------------------------------------------------------------------------
(* The calls. *)

\* An allocation is counted.
LEMMA TallyAlloc ==
    ASSUME NEW st, NEW hd \in [Address -> Size], Tally(st, hd),
           NEW a \in Address, hd[a] = 0, NEW size \in Size, size > 0
    PROVE  Tally(TrackAlloc(st, Charge(size)), [hd EXCEPT ![a] = size])
<1> DEFINE hd2 == [hd EXCEPT ![a] = size]
           st2 == TrackAlloc(st, Charge(size))
           n == Charge(size)
<1>1. /\ Bill(hd2) = Bill(hd) + n
      /\ Cardinality(InUse(hd2)) = Cardinality(InUse(hd)) + 1
  <2>1. Differ(hd, hd2, a, size)
    BY DifferIs
  <2> HIDE DEF hd2
  <2> QED
    BY <2>1, BillAdds
<1>2. /\ n \in Int /\ Bill(hd) \in Int /\ Cardinality(InUse(hd)) \in Int
      /\ st \in StatsType /\ st2 \in StatsType
  BY ChargeType, BillType, TrackType DEF Tally
<1>3. st.allocs \in Int /\ st.frees \in Int /\ st.bytes \in Int
  BY <1>2 DEF StatsType
<1>4. CASE ~TRACKING
  BY <1>2, <1>4 DEF Tally, TrackAlloc
<1>5. CASE TRACKING
  <2>1. /\ Agree(st.allocs - st.frees, Cardinality(InUse(hd)))
        /\ Agree(st.bytes, Bill(hd))
    BY <1>5 DEF Tally
  <2>2. /\ st2.allocs = (st.allocs + 1) % COUNTER /\ st2.frees = st.frees
        /\ st2.bytes = (st.bytes + n) % COUNTER
    BY <1>2, <1>5 DEF TrackAlloc, StatsType
  <2>3. st2.allocs \in Int /\ st2.bytes \in Int
    BY <1>2 DEF StatsType
  <2> HIDE DEF hd2, st2, n
  <2>4. Agree(st2.bytes, Bill(hd2))
    <3>1. Agree(st2.bytes, st.bytes + n) /\ st.bytes + n \in Int
      BY <1>2, <1>3, <2>2, AgreeFacts
    <3>2. Agree(st.bytes + n, Bill(hd) + n) /\ Bill(hd) + n \in Int
      BY <1>2, <1>3, <2>1, AgreeShift
    <3> QED
      BY <1>1, <2>3, <3>1, <3>2, AgreeFacts
  <2>5. Agree(st2.allocs - st2.frees, Cardinality(InUse(hd2)))
    <3>1. Agree(st2.allocs, st.allocs + 1) /\ st.allocs + 1 \in Int
      BY <1>3, <2>2, AgreeFacts
    <3>2. /\ (st.allocs + 1) - st.frees = (st.allocs - st.frees) + 1
          /\ st.allocs - st.frees \in Int
      BY <1>3
    <3>3. Agree(st2.allocs - st.frees, (st.allocs + 1) - st.frees)
      BY <1>3, <2>3, <3>1, AgreeShift
    <3>4. Agree((st.allocs - st.frees) + 1, Cardinality(InUse(hd)) + 1)
      BY <1>2, <2>1, <3>2, AgreeShift
    <3> QED
      BY <1>1, <1>2, <1>3, <2>2, <2>3, <3>2, <3>3, <3>4, AgreeFacts
  <2>6. st2 \in StatsType
    BY <1>2
  <2>7. Tally(st2, hd2)
    BY <1>5, <2>4, <2>5, <2>6 DEF Tally
  <2> QED
    BY <2>7 DEF hd2, st2, n
<1> QED
  BY <1>4, <1>5

\* A free is counted, with the bytes the allocation was charged.
LEMMA TallyFree ==
    ASSUME NEW st, NEW hd \in [Address -> Size], Tally(st, hd), NEW a \in InUse(hd)
    PROVE  Tally(TrackFree(st, Charge(hd[a])), [hd EXCEPT ![a] = 0])
<1> DEFINE hd2 == [hd EXCEPT ![a] = 0]
           st2 == TrackFree(st, Charge(hd[a]))
           n == Charge(hd[a])
<1>1. /\ Bill(hd2) = Bill(hd) - n
      /\ Cardinality(InUse(hd2)) = Cardinality(InUse(hd)) - 1
  <2>1. Differ(hd, hd2, a, 0)
    BY SizeAssumption, InUseFinite, DifferIs
  <2> HIDE DEF hd2
  <2> QED
    BY <2>1, BillDrops
<1>2. /\ n \in Int /\ Bill(hd) \in Int /\ Cardinality(InUse(hd)) \in Int
      /\ st \in StatsType /\ st2 \in StatsType
  <2>1. hd[a] \in Size
    BY DEF InUse
  <2>2. n \in Int /\ st \in StatsType
    BY <2>1, ChargeType DEF Tally
  <2>3. Bill(hd) \in Int /\ Cardinality(InUse(hd)) \in Int
    BY BillType
  <2>4. TrackFree(st, n) \in StatsType
    <3> HIDE DEF n
    <3> QED
      BY <2>2, 0 \in Int, TrackType
  <2> QED
    BY <2>2, <2>3, <2>4
<1>3. st.allocs \in Int /\ st.frees \in Int /\ st.bytes \in Int
  BY <1>2 DEF StatsType
<1>4. CASE ~TRACKING
  BY <1>2, <1>4 DEF Tally, TrackFree
<1>5. CASE TRACKING
  <2>1. /\ Agree(st.allocs - st.frees, Cardinality(InUse(hd)))
        /\ Agree(st.bytes, Bill(hd))
    BY <1>5 DEF Tally
  <2>2. /\ st2.frees = (st.frees + 1) % COUNTER /\ st2.allocs = st.allocs
        /\ st2.bytes = (st.bytes - n) % COUNTER
    BY <1>2, <1>5 DEF TrackFree, StatsType
  <2>3. st2.frees \in Int /\ st2.bytes \in Int
    BY <1>2 DEF StatsType
  <2> HIDE DEF hd2, st2, n
  <2>4. Agree(st2.bytes, Bill(hd2))
    <3>1. Agree(st2.bytes, st.bytes - n) /\ st.bytes - n \in Int
      BY <1>2, <1>3, <2>2, AgreeFacts
    <3>2. Agree(st.bytes - n, Bill(hd) - n) /\ Bill(hd) - n \in Int
      BY <1>2, <1>3, <2>1, AgreeShift
    <3> QED
      BY <1>1, <2>3, <3>1, <3>2, AgreeFacts
  <2>5. Agree(st2.allocs - st2.frees, Cardinality(InUse(hd2)))
    <3>1. Agree(st2.frees, st.frees + 1) /\ st.frees + 1 \in Int
      BY <1>3, <2>2, AgreeFacts
    <3>2. Agree(-st2.frees, -(st.frees + 1)) /\ -st2.frees \in Int /\ -(st.frees + 1) \in Int
      BY <2>3, <3>1, AgreeFacts
    <3>3. /\ -st2.frees + st.allocs = st.allocs - st2.frees
          /\ -(st.frees + 1) + st.allocs = (st.allocs - st.frees) - 1
          /\ st.allocs - st.frees \in Int
      BY <1>3, <2>3
    <3>4. Agree(-st2.frees + st.allocs, -(st.frees + 1) + st.allocs)
      BY <1>3, <3>2, AgreeShift
    <3>5. Agree((st.allocs - st.frees) - 1, Cardinality(InUse(hd)) - 1)
      BY <1>2, <2>1, <3>3, AgreeShift
    <3> QED
      BY <1>1, <1>2, <1>3, <2>2, <2>3, <3>3, <3>4, <3>5, AgreeFacts
  <2>6. st2 \in StatsType
    BY <1>2
  <2>7. Tally(st2, hd2)
    BY <1>5, <2>4, <2>5, <2>6 DEF Tally
  <2> QED
    BY <2>7 DEF hd2, st2, n
<1> QED
  BY <1>4, <1>5

\* A block resized within its class is charged the same.
LEMMA TallySame ==
    ASSUME NEW st, NEW hd \in [Address -> Size], Tally(st, hd), NEW a \in InUse(hd),
           NEW size \in Size, size > 0, Charge(size) = Charge(hd[a])
    PROVE  Tally(st, [hd EXCEPT ![a] = size])
<1> DEFINE hd2 == [hd EXCEPT ![a] = size]
<1>1. /\ InUse(hd2) = InUse(hd) /\ Bill(hd2) = Bill(hd) - Charge(hd[a]) + Charge(size)
  <2>1. Differ(hd, hd2, a, size)
    BY InUseFinite, DifferIs
  <2> HIDE DEF hd2
  <2> QED
    BY <2>1, BillReplaces
<1>2. Bill(hd) \in Int /\ Charge(size) \in Int
  BY BillType, ChargeType
<1> HIDE DEF hd2
<1>3. Bill(hd2) = Bill(hd)
  BY <1>1, <1>2
<1>4. Tally(st, hd2)
  BY <1>1, <1>3 DEF Tally
<1> QED
  BY <1>4 DEF hd2

\* A large block resized in place is charged the new size.
LEMMA TallyRecharge ==
    ASSUME NEW st, NEW hd \in [Address -> Size], Tally(st, hd), NEW a \in InUse(hd),
           NEW size \in Size, size > 0
    PROVE  Tally(Recharge(st, Charge(hd[a]), Charge(size)), [hd EXCEPT ![a] = size])
<1> DEFINE hd2 == [hd EXCEPT ![a] = size]
           old == Charge(hd[a])
           new == Charge(size)
           st2 == Recharge(st, old, new)
<1>1. InUse(hd2) = InUse(hd) /\ Bill(hd2) = Bill(hd) - old + new
  <2>1. Differ(hd, hd2, a, size)
    BY InUseFinite, DifferIs
  <2> HIDE DEF hd2
  <2> QED
    BY <2>1, BillReplaces
<1>2. /\ old \in Int /\ new \in Int /\ Bill(hd) \in Int
      /\ st \in StatsType /\ st2 \in StatsType
  <2>1. hd[a] \in Size
    BY DEF InUse
  <2> QED
    BY <2>1, ChargeType, BillType, TrackType DEF Tally
<1>3. st.bytes \in Int
  BY <1>2 DEF StatsType
<1>4. CASE ~TRACKING
  BY <1>2, <1>4 DEF Tally, Recharge
<1>5. CASE TRACKING
  <2>1. /\ Agree(st.allocs - st.frees, Cardinality(InUse(hd)))
        /\ Agree(st.bytes, Bill(hd))
    BY <1>5 DEF Tally
  <2>2. /\ st2.allocs = st.allocs /\ st2.frees = st.frees
        /\ st2.bytes = (st.bytes - old + new) % COUNTER
    BY <1>2, <1>5 DEF Recharge, StatsType
  <2>3. st2.bytes \in Int
    BY <1>2 DEF StatsType
  <2> HIDE DEF hd2, st2, old, new
  <2>4. Agree(st2.bytes, Bill(hd2))
    <3>1. Agree(st2.bytes, st.bytes - old + new) /\ st.bytes - old + new \in Int
      BY <1>2, <1>3, <2>2, AgreeFacts
    <3>2. /\ Agree(st.bytes - old, Bill(hd) - old)
          /\ st.bytes - old \in Int /\ Bill(hd) - old \in Int
      BY <1>2, <1>3, <2>1, AgreeShift
    <3>3. Agree((st.bytes - old) + new, (Bill(hd) - old) + new)
      BY <1>2, <1>3, <3>2, AgreeShift
    <3> QED
      BY <1>1, <1>2, <2>3, <3>1, <3>3, AgreeFacts
  <2>5. st2 \in StatsType
    BY <1>2
  <2>6. Tally(st2, hd2)
    BY <1>1, <1>5, <2>1, <2>2, <2>4, <2>5 DEF Tally
  <2> QED
    BY <2>6 DEF hd2, st2, old, new
<1> QED
  BY <1>4, <1>5

-------------------------------------------------------------------------------
(* The invariant. *)

\* pool_free and pool_reallocate take back what the allocation was charged: they
\* read it from the page class, or from the header of a large block.
LEMMA UsableIs ==
    ASSUME NEW h, NEW hd, NEW ct, Owned(h, hd, ct), NEW a \in InUse(hd)
    PROVE  Usable(h, a) = Charge(hd[a])
<1>1. h.page_class[a[1]] \in Kind /\ h.page_class[a[1]] = SizeClass(hd[a])
  BY InUseFacts DEF Owned
<1>2. CASE h.page_class[a[1]] = LARGE
  <2>1. h.mem[BlockOf(a)] = Number(hd[a])
    BY <1>2 DEF Owned
  <2>2. Target(Number(hd[a])) = hd[a]
    BY DEF Target, Number
  <2> QED
    BY <1>1, <1>2, <2>1, <2>2, KindFacts DEF Usable, Charge
<1>3. CASE h.page_class[a[1]] # LARGE
  <2>1. h.page_class[a[1]] \in Class
    BY <1>1, <1>3 DEF Kind
  <2> QED
    BY <1>1, <1>3, <2>1 DEF Usable, Charge
<1> QED
  BY <1>2, <1>3

SInv == IInv /\ Tally(stats, held)

\* Nothing is in use after pool_create.
LEMMA InitTally == Init => Tally(stats, held)
<1> SUFFICES ASSUME Init PROVE Tally(stats, held)
  OBVIOUS
<1>1. InUse(held) = {} /\ stats = NoStats
  BY DEF Init, InUse, NoStats
<1>2. Bill(held) = 0 /\ Cardinality(InUse(held)) = 0
  BY <1>1, SumEmpty, FS_EmptySet DEF Bill
<1>3. stats \in StatsType
  BY <1>1, OtherAssumption DEF NoStats, StatsType
<1>4. Agree(0, 0)
  BY AgreeFacts
<1>5. stats.allocs - stats.frees = 0 /\ stats.bytes = 0
  BY <1>1 DEF NoStats
<1> QED
  BY <1>1, <1>2, <1>3, <1>4, <1>5 DEF Tally

\* pool_allocate.
LEMMA AllocateTally ==
    ASSUME NoWrap, SInv, NEW size \in Size, Allocate(size)
    PROVE  Tally(stats', held')
<1> DEFINE r == PoolAllocate(heap, size)
<1>1. CASE r.ptr = NULL
  <2>1. held' = held /\ stats' = stats
    BY <1>1 DEF Allocate
  <2> QED
    BY <2>1 DEF SInv
<1>2. CASE r.ptr # NULL
  <2> DEFINE q == r.ptr
  <2>1. /\ held' = [held EXCEPT ![q] = size] /\ size > 0
        /\ stats' = TrackAlloc(stats, Charge(size))
    BY <1>2, SizeAssumption DEF Allocate, PoolAllocate
  <2>2. HandedOut(heap, UsedBlocks(heap, held), r.heap, q, size)
    BY <1>2, Facts, AllocateCases DEF SInv
  <2> HIDE DEF r, q
  <2>3. q \in Address /\ held[q] = 0
    BY <2>1, <2>2, HandedOutOwned DEF SInv, IInv
  <2>4. held \in [Address -> Size] /\ Tally(stats, held)
    BY Facts DEF SInv
  <2>5. Tally(TrackAlloc(stats, Charge(size)), [held EXCEPT ![q] = size])
    BY <2>1, <2>3, <2>4, TallyAlloc
  <2> QED
    BY <2>1, <2>5
<1> QED
  BY <1>1, <1>2

\* pool_free.
LEMMA FreeTally ==
    ASSUME SInv, NEW ptr, Free(ptr)
    PROVE  Tally(stats', held')
<1>1. CASE ptr = NULL
  BY <1>1 DEF Free, SInv
<1>2. CASE ptr # NULL
  <2>1. /\ ptr \in InUse(held) /\ held' = [held EXCEPT ![ptr] = 0]
        /\ stats' = TrackFree(stats, Usable(heap, ptr))
        /\ held \in [Address -> Size] /\ Tally(stats, held)
    BY <1>2, Facts DEF Free, SInv
  <2>2. Usable(heap, ptr) = Charge(held[ptr])
    BY <2>1, UsableIs DEF SInv, IInv
  <2>3. Tally(TrackFree(stats, Charge(held[ptr])), [held EXCEPT ![ptr] = 0])
    BY <2>1, TallyFree
  <2> QED
    BY <2>1, <2>2, <2>3
<1> QED
  BY <1>1, <1>2

\* pool_reallocate: a move counts an allocation and a free.
LEMMA ReallocateTally ==
    ASSUME NoWrap, SInv, NEW ptr, NEW size \in Size, Reallocate(ptr, size)
    PROVE  Tally(stats', held')
<1> DEFINE r == PoolAllocate(heap, size)
<1>1. /\ Owned(heap, held, content) /\ held \in [Address -> Size]
      /\ Held = InUse(held) /\ Tally(stats, held)
  BY Facts DEF SInv, IInv
<1>2. CASE UNCHANGED vars
  BY <1>1, <1>2 DEF vars
<1>3. CASE ReallocateSameClass(ptr, size)
  <2>1. /\ ptr \in InUse(held) /\ held' = [held EXCEPT ![ptr] = size]
        /\ stats' = stats /\ size > 0
        /\ heap.page_class[ptr[1]] \in Class
        /\ heap.page_class[ptr[1]] = SizeClass(size)
    BY <1>1, <1>3 DEF ReallocateSameClass
  <2>2. heap.page_class[ptr[1]] = SizeClass(held[ptr])
    BY <1>1, <2>1 DEF Owned
  <2>3. Charge(size) = Charge(held[ptr])
    BY <2>1, <2>2, KindFacts DEF Charge
  <2>4. Tally(stats, [held EXCEPT ![ptr] = size])
    BY <1>1, <2>1, <2>3, TallySame
  <2> QED
    BY <2>1, <2>4
<1>4. CASE ReallocateLargeInPlace(ptr, size)
  <2>1. /\ ptr \in InUse(held) /\ held' = [held EXCEPT ![ptr] = size]
        /\ stats' = Recharge(stats, Usable(heap, ptr), size)
        /\ SizeClass(size) = LARGE /\ size > 0
    BY <1>1, <1>4 DEF ReallocateLargeInPlace, LargeFitsInPlace
  <2>2. Usable(heap, ptr) = Charge(held[ptr]) /\ size = Charge(size)
    BY <1>1, <2>1, UsableIs DEF Charge
  <2>3. Tally(Recharge(stats, Charge(held[ptr]), Charge(size)),
              [held EXCEPT ![ptr] = size])
    BY <1>1, <2>1, TallyRecharge
  <2> QED
    BY <2>1, <2>2, <2>3
<1>5. CASE ReallocateMove(ptr, size) /\ r.ptr = NULL
  <2>1. held' = held /\ stats' = stats
    BY <1>5 DEF ReallocateMove
  <2> QED
    BY <1>1, <2>1
<1>6. CASE ReallocateMove(ptr, size) /\ r.ptr # NULL
  <2> DEFINE q == r.ptr
             g == r.heap
             hd == [held EXCEPT ![q] = size]
             st == TrackAlloc(stats, Charge(size))
  <2>1. /\ ptr \in InUse(held) /\ size > 0
        /\ held' = [held EXCEPT ![ptr] = 0, ![q] = size]
        /\ stats' = TrackFree(st, Usable(g, ptr))
    BY <1>1, <1>6 DEF ReallocateMove
  <2>2. HandedOut(heap, UsedBlocks(heap, held), g, q, size)
    BY <1>6, Facts, AllocateCases DEF SInv
  <2> HIDE DEF r, q, g
  <2>3. /\ q \in Address /\ held[q] = 0
        /\ Owned(g, hd, [content EXCEPT ![q] = g.mem[q]])
    BY <1>1, <2>1, <2>2, HandedOutOwned
  <2>4. ptr # q /\ ptr \in Address /\ held[ptr] > 0
    BY <2>1, <2>3 DEF InUse
  <2>5. hd \in [Address -> Size] /\ ptr \in InUse(hd)
    BY <1>1, <2>3, <2>4 DEF InUse
  <2>6. held' = [hd EXCEPT ![ptr] = 0]
    BY <1>1, <2>1, <2>3, <2>4
  <2>7. Tally(st, hd)
    BY <1>1, <2>1, <2>3, TallyAlloc
  <2> HIDE DEF hd, st
  <2>8. Usable(g, ptr) = Charge(hd[ptr])
    BY <2>3, <2>5, UsableIs
  <2>9. Tally(TrackFree(st, Charge(hd[ptr])), [hd EXCEPT ![ptr] = 0])
    BY <2>5, <2>7, TallyFree
  <2> QED
    BY <2>1, <2>6, <2>8, <2>9
<1>7. CASE ptr = NULL /\ Allocate(size)
  BY <1>7, AllocateTally
<1> QED
  BY <1>2, <1>3, <1>4, <1>5, <1>6, <1>7 DEF Reallocate, ReallocateRefused

\* The invariant of the statistics, in every state.
LEMMA StatsInvariance == ASSUME NoWrap PROVE Spec => []SInv
<1>1. SInv /\ [Next]_vars => SInv'
  <2> SUFFICES ASSUME SInv, [Next]_vars PROVE SInv'
    OBVIOUS
  <2>1. IInv'
    BY NextIInv DEF SInv
  <2>2. Tally(stats', held')
    <3>1. CASE \E size \in Size : Allocate(size)
      BY <3>1, AllocateTally
    <3>2. CASE \E ptr \in Address \cup {NULL} : Free(ptr)
      BY <3>2, FreeTally
    <3>3. CASE \E ptr \in Address \cup {NULL}, size \in Size : Reallocate(ptr, size)
      BY <3>3, ReallocateTally
    <3>4. CASE \E ptr \in Address, v \in Value : Write(ptr, v)
      BY <3>4 DEF Write, SInv
    <3>5. CASE UNCHANGED vars
      BY <3>5 DEF vars, SInv
    <3> QED
      BY <3>1, <3>2, <3>3, <3>4, <3>5 DEF Next
  <2> QED
    BY <2>1, <2>2 DEF SInv
<1> QED
  BY <1>1, InitIInv, InitTally, PTL DEF Spec, SInv

\* The fold of the property is the sum of the lemmas.
LEMMA HeldChargeIs ==
    ASSUME IInv
    PROVE  HeldCharge = Bill(held)
<1> DEFINE S == Held
           w == Charges(held)
           P(g) == g = [s \in SUBSET S |->
                          IF s = {} THEN 0
                          ELSE Charge(held[CHOOSE x \in s : TRUE])
                                 + g[s \ {CHOOSE x \in s : TRUE}]]
<1>1. HeldCharge = (CHOOSE g : P(g))[S]
  BY DEF HeldCharge, FoldFunctionOnSet, MapThenFoldSet
<1>2. S = InUse(held) /\ IsFiniteSet(S) /\ S \subseteq Address
  BY Facts, InUseFinite
<1>3. PICK h : IsSum(h, w, S)
  BY <1>2, SumExists
<1>4. ASSUME NEW g PROVE IsSum(g, w, S) <=> P(g)
  <2>1. \A s \in SUBSET S : s # {} => w[Pick(s)] = Charge(held[Pick(s)])
    BY <1>2, PickIn DEF Charges
  <2> HIDE DEF w
  <2>2. [s \in SUBSET S |-> IF s = {} THEN 0 ELSE w[Pick(s)] + g[s \ {Pick(s)}]]
          = [s \in SUBSET S |-> IF s = {} THEN 0
                                ELSE Charge(held[Pick(s)]) + g[s \ {Pick(s)}]]
    BY <2>1
  <2>3. P(g) <=> g = [s \in SUBSET S |-> IF s = {} THEN 0
                                ELSE Charge(held[Pick(s)]) + g[s \ {Pick(s)}]]
    BY DEF Pick
  <2> QED
    BY <2>2, <2>3 DEF IsSum
<1> HIDE DEF P, w, S
<1>5. P(CHOOSE g : P(g))
  BY <1>3, <1>4
<1>6. IsSum(CHOOSE g : P(g), w, S)
  BY <1>4, <1>5
<1>7. IsSum(CHOOSE g : IsSum(g, w, S), w, S)
  BY <1>3
<1>8. (CHOOSE g : P(g))[S] = (CHOOSE g : IsSum(g, w, S))[S]
  BY <1>2, <1>6, <1>7, SumUnique
<1> QED
  BY <1>1, <1>2, <1>8 DEF Bill, Sum, w

\* The statistics stay exact up to the width of their counters, whichever way
\* the blocks were allocated, moved, resized or freed.
THEOREM StatisticsStayExact == ASSUME NoWrap PROVE Spec => []StatsExact
<1>1. ASSUME SInv PROVE StatsExact
  <2>1. /\ stats \in StatsType /\ HeldCharge = Bill(held) /\ Held = InUse(held)
        /\ Bill(held) \in Int /\ Cardinality(InUse(held)) \in Int
    BY <1>1, HeldChargeIs, Facts, BillType DEF SInv, IInv
  <2>2. CASE ~TRACKING
    BY <1>1, <2>2 DEF SInv, Tally, StatsExact, NoStats
  <2>3. CASE TRACKING
    <3>1. /\ Agree(stats.allocs - stats.frees, Cardinality(InUse(held)))
          /\ Agree(stats.bytes, Bill(held))
      BY <1>1, <2>3 DEF SInv, Tally
    <3>2. /\ stats.allocs \in Int /\ stats.frees \in Int
          /\ stats.bytes \in Nat /\ stats.bytes < COUNTER /\ COUNTER \in Nat
      BY <2>1, OtherAssumption DEF StatsType
    <3>3. stats.bytes % COUNTER = stats.bytes
      BY <3>2, NoRemainder
    <3>4. stats.bytes = Bill(held) % COUNTER
      BY <2>1, <3>1, <3>2, <3>3, AgreeRemainder
    <3>5. stats.allocs - stats.frees \in Int
      BY <3>2
    <3>6. (stats.allocs - stats.frees) % COUNTER = Cardinality(InUse(held)) % COUNTER
      BY <2>1, <3>1, <3>5, AgreeRemainder
    <3> QED
      BY <2>1, <2>3, <3>4, <3>6 DEF StatsExact
  <2> QED
    BY <2>2, <2>3
<1> QED
  BY <1>1, StatsInvariance, PTL
===============================================================================
