--------------------------- MODULE FreeListTheorems ---------------------------
(***************************************************************************)
(* What the operators of FreeList preserve, for every magazine size and    *)
(* every list.  B is the set of blocks, w a memory that covers it.       *)
(***************************************************************************)
EXTENDS FreeList, SequenceTheorems, TLAPS

-------------------------------------------------------------------------------
(* Sequences without repetition. *)

\* The elements of a sequence that grows by one.
LEMMA AppendSet ==
    ASSUME NEW B, NEW s \in Seq(B), NEW x \in B
    PROVE  /\ Append(s, x) \in Seq(B)
           /\ ToSet(Append(s, x)) = ToSet(s) \cup {x}
           /\ Injective(s) /\ x \notin ToSet(s) => Injective(Append(s, x))
           /\ Append(s, x) # <<>> /\ Last(Append(s, x)) = x
<1> DEFINE t == Append(s, x)
<1>1. t \in Seq(B) /\ DOMAIN t = 1..Len(s)+1 /\ DOMAIN s = 1..Len(s)
      /\ t[Len(s)+1] = x /\ \A i \in DOMAIN s : t[i] = s[i]
  OBVIOUS
<1>2. ToSet(t) \subseteq ToSet(s) \cup {x}
  BY <1>1 DEF ToSet
<1>3. ToSet(s) \subseteq ToSet(t)
  BY <1>1 DEF ToSet
<1>4. x \in ToSet(t)
  BY <1>1 DEF ToSet
<1>5. Injective(s) /\ x \notin ToSet(s) => Injective(t)
  BY <1>1 DEF ToSet, Injective
<1>6. t # <<>> /\ Last(t) = x
  BY <1>1 DEF Last
<1> QED
  BY <1>1, <1>2, <1>3, <1>4, <1>5, <1>6

\* The elements of a sequence that loses its last one.
LEMMA FrontSet ==
    ASSUME NEW B, NEW s \in Seq(B), s # <<>>
    PROVE  /\ Front(s) \in Seq(B) /\ Last(s) \in ToSet(s)
           /\ Len(Front(s)) = Len(s) - 1
           /\ \A i \in 1..Len(s)-1 : Front(s)[i] = s[i]
           /\ Injective(s) => /\ ToSet(Front(s)) = ToSet(s) \ {Last(s)}
                              /\ Injective(Front(s))
<1> DEFINE t == Front(s)
<1>1. Len(s) \in Nat \ {0} /\ DOMAIN s = 1..Len(s)
  OBVIOUS
<1>2. t \in Seq(B) /\ Len(t) = Len(s) - 1 /\ DOMAIN t = 1..Len(s)-1
      /\ \A i \in 1..Len(s)-1 : t[i] = s[i]
  BY <1>1 DEF Front
<1>3. Last(s) \in ToSet(s) /\ Last(s) = s[Len(s)]
  BY <1>1 DEF Last, ToSet
<1>4. ASSUME Injective(s)
      PROVE  ToSet(t) = ToSet(s) \ {Last(s)} /\ Injective(t)
  <2>1. ToSet(t) \subseteq ToSet(s) \ {Last(s)}
    BY <1>1, <1>2, <1>3, <1>4 DEF ToSet, Injective
  <2>2. ToSet(s) \ {Last(s)} \subseteq ToSet(t)
    BY <1>1, <1>2, <1>3 DEF ToSet
  <2>3. Injective(t)
    BY <1>1, <1>2, <1>4 DEF Injective
  <2> QED
    BY <2>1, <2>2, <2>3
<1> HIDE DEF t
<1> QED
  BY <1>2, <1>3, <1>4 DEF t

\* A sequence cut in two: neither part loses or repeats an element.
LEMMA SplitSeq ==
    ASSUME NEW B, NEW s \in Seq(B), NEW k \in 0..Len(s)
    PROVE  /\ SubSeq(s, 1, k) \in Seq(B)
           /\ SubSeq(s, k+1, Len(s)) \in Seq(B)
           /\ Len(SubSeq(s, 1, k)) = k
           /\ Len(SubSeq(s, k+1, Len(s))) = Len(s) - k
           /\ \A i \in 1..k : SubSeq(s, 1, k)[i] = s[i]
           /\ \A i \in 1..(Len(s)-k) : SubSeq(s, k+1, Len(s))[i] = s[k+i]
           /\ ToSet(s) = ToSet(SubSeq(s, 1, k)) \cup ToSet(SubSeq(s, k+1, Len(s)))
           /\ Injective(s) =>
                /\ Injective(SubSeq(s, 1, k))
                /\ Injective(SubSeq(s, k+1, Len(s)))
                /\ ToSet(SubSeq(s, 1, k)) \cap ToSet(SubSeq(s, k+1, Len(s))) = {}
<1> DEFINE n == Len(s)
           m == SubSeq(s, 1, k)
           d == SubSeq(s, k+1, Len(s))
<1>1. n \in Nat /\ DOMAIN s = 1..n /\ k \in Nat /\ k <= n
  OBVIOUS
<1> HIDE DEF n
<1>2. /\ m \in Seq(B) /\ Len(m) = k /\ DOMAIN m = 1..k
      /\ \A i \in 1..k : m[i] = s[i]
  BY <1>1 DEF n
<1>3. /\ d \in Seq(B) /\ Len(d) = n - k /\ DOMAIN d = 1..(n-k)
      /\ \A i \in 1..(n-k) : d[i] = s[(k+1) + i - 1]
  <2>1. k+1 \in Int /\ n \in Int /\ n - (k+1) + 1 = n - k
    BY <1>1
  <2>2. \A i \in k+1..n : s[i] \in B
    BY <1>1
  <2>3. k+1 <= n => n - (k+1) + 1 = n - k
    BY <1>1
  <2>4. k+1 > n => n - k = 0
    BY <1>1
  <2> DEFINE f == k+1
  <2> HIDE DEF f
  <2>5. /\ SubSeq(s, f, n) \in Seq(B)
        /\ Len(SubSeq(s, f, n)) = IF f <= n THEN n - f + 1 ELSE 0
        /\ \A i \in 1..n - f + 1 : SubSeq(s, f, n)[i] = s[f + i - 1]
    BY <2>1, <2>2, SubSeqProperties DEF f
  <2>6. d = SubSeq(s, f, n)
    BY DEF f, n
  <2> HIDE DEF d
  <2>7. /\ d \in Seq(B) /\ Len(d) = n - k
        /\ \A i \in 1..n - k : d[i] = s[f + i - 1]
    BY <1>1, <2>1, <2>3, <2>4, <2>5, <2>6 DEF f
  <2> QED
    BY <2>7 DEF f
<1>4. \A i \in 1..(n-k) : d[i] = s[k+i]
  <2> SUFFICES ASSUME NEW i \in 1..(n-k) PROVE d[i] = s[k+i]
    OBVIOUS
  <2>1. (k+1) + i - 1 = k+i
    BY <1>1
  <2> HIDE DEF d
  <2> QED
    BY <1>3, <2>1
<1> HIDE DEF m, d
<1>5. ToSet(s) \subseteq ToSet(m) \cup ToSet(d)
  <2> SUFFICES ASSUME NEW i \in 1..n PROVE s[i] \in ToSet(m) \cup ToSet(d)
    BY <1>1 DEF ToSet
  <2>1. CASE i <= k
    <3>1. i \in 1..k
      BY <1>1, <2>1
    <3> QED
      BY <1>2, <3>1 DEF ToSet
  <2>2. CASE i > k
    <3>1. i-k \in 1..(n-k) /\ k + (i-k) = i
      BY <1>1, <2>2
    <3>2. d[i-k] = s[i]
      BY <1>4, <3>1
    <3> QED
      BY <1>3, <3>1, <3>2 DEF ToSet
  <2> QED
    BY <1>1, <2>1, <2>2
<1>6. ToSet(m) \cup ToSet(d) \subseteq ToSet(s)
  <2>1. ToSet(m) \subseteq ToSet(s)
    BY <1>1, <1>2 DEF ToSet
  <2>2. ASSUME NEW i \in 1..(n-k) PROVE d[i] \in ToSet(s)
    <3>1. k+i \in 1..n
      BY <1>1
    <3> QED
      BY <1>1, <1>4, <3>1 DEF ToSet
  <2> QED
    BY <1>3, <2>1, <2>2 DEF ToSet
<1>7. ASSUME Injective(s)
      PROVE  Injective(m) /\ Injective(d) /\ ToSet(m) \cap ToSet(d) = {}
  <2>2. Injective(m)
    BY <1>1, <1>2, <1>7 DEF Injective
  <2>3. ASSUME NEW i \in 1..(n-k), NEW j \in 1..(n-k), d[i] = d[j]
        PROVE  i = j
    <3>1. k+i \in 1..n /\ k+j \in 1..n /\ s[k+i] = s[k+j]
      BY <1>1, <1>4, <2>3
    <3>2. k+i = k+j
      BY <1>1, <1>7, <3>1 DEF Injective
    <3> QED
      BY <1>1, <3>2
  <2>4. ASSUME NEW i \in 1..k, NEW j \in 1..(n-k)
        PROVE  m[i] # d[j]
    <3>1. i \in 1..n /\ k+j \in 1..n /\ i # k+j
      BY <1>1
    <3>2. s[i] # s[k+j]
      BY <1>1, <1>7, <3>1 DEF Injective
    <3> QED
      BY <1>2, <1>4, <3>2
  <2>5. ToSet(m) \cap ToSet(d) = {}
    BY <1>2, <1>3, <2>4 DEF ToSet
  <2>6. Injective(d)
    BY <1>3, <2>3 DEF Injective
  <2> QED
    BY <2>2, <2>5, <2>6
<1> QED
  BY <1>2, <1>3, <1>4, <1>5, <1>6, <1>7 DEF n, m, d

-------------------------------------------------------------------------------
(* The operations of the list. *)

\* Pushing a block that is not in the list adds exactly that block, and
\* writes no other word: free_list_push.
LEMMA PushIsList ==
    ASSUME NEW B, NULL \notin B,
           NEW l \in List(B), NEW w, DOMAIN w = B, NEW c \in Seq(B),
           IsList(l, w, c),
           NEW b \in B, b \notin FreeOf(l, c)
    PROVE  /\ Push(l, b) \in List(B)
           /\ PushChain(l, c, b) \in Seq(B)
           /\ IsList(Push(l, b), PushMem(l, w, b), PushChain(l, c, b))
           /\ FreeOf(Push(l, b), PushChain(l, c, b))
                = FreeOf(l, c) \cup {b}
           /\ DOMAIN PushMem(l, w, b) = B
           /\ \A a \in B \ {b} : PushMem(l, w, b)[a] = w[a]
<1> DEFINE m == l.mag
<1>0. m \in Seq(B) /\ l.head \in B \cup {NULL}
  BY DEF List
<1>1. CASE HasRoom(l)
  <2>1. Push(l, b) = [mag |-> Append(m, b), head |-> l.head]
    BY <1>1 DEF Push, List
  <2>2. PushMem(l, w, b) = w /\ PushChain(l, c, b) = c
    BY <1>1 DEF PushMem, PushChain
  <2>3. Append(m, b) \in Seq(B) /\ ToSet(Append(m, b)) = ToSet(m) \cup {b}
    BY <1>0, AppendSet
  <2>4. Injective(Append(m, b))
    BY <1>0, AppendSet DEF IsList, FreeOf
  <2>5. ToSet(Append(m, b)) \cap ToSet(c) = {}
    BY <2>3 DEF IsList, FreeOf
  <2>6. Len(Append(m, b)) <= MAG_SIZE
    BY <1>0, <1>1, MagSizeAssumption DEF HasRoom
  <2> HIDE DEF m
  <2> QED
    BY <1>0, <2>1, <2>2, <2>3, <2>4, <2>5, <2>6 DEF IsList, FreeOf, List, m
<1>2. CASE ~HasRoom(l)
  <2>1. Push(l, b) = [mag |-> m, head |-> b]
    BY <1>2 DEF Push, List
  <2>2. /\ PushMem(l, w, b) = [w EXCEPT ![b] = Link(l.head)]
        /\ PushChain(l, c, b) = Append(c, b)
    BY <1>2 DEF PushMem, PushChain
  <2> DEFINE d == Append(c, b)
  <2>3. d \in Seq(B) /\ ToSet(d) = ToSet(c) \cup {b}
    BY AppendSet
  <2>4. Injective(d)
    BY AppendSet DEF IsList, FreeOf
  <2>5. ToSet(m) \cap ToSet(d) = {}
    BY <2>3 DEF IsList, FreeOf
  <2>6. d # <<>> /\ Last(d) = b
    BY AppendSet
  <2>7. ASSUME NEW i \in DOMAIN d
        PROVE  [w EXCEPT ![b] = Link(l.head)][d[i]]
                 = Link(IF i = 1 THEN NULL ELSE d[i-1])
    <3>1. CASE i = Len(c) + 1
      <4>1. d[i] = b
        BY <3>1
      <4>2. l.head = IF i = 1 THEN NULL ELSE d[i-1]
        BY <3>1 DEF IsList, Last
      <4> QED
        BY <4>1, <4>2
    <3>2. CASE i \in DOMAIN c
      <4>1. d[i] = c[i] /\ d[i] # b /\ (i # 1 => d[i-1] = c[i-1])
        BY <3>2 DEF FreeOf, ToSet
      <4>2. w[c[i]] = Link(IF i = 1 THEN NULL ELSE c[i-1])
        BY <3>2 DEF IsList
      <4> QED
        BY <3>2, <4>1, <4>2
    <3> QED
      BY <3>1, <3>2
  <2> HIDE DEF d, m
  <2> QED
    BY <1>0, <2>1, <2>2, <2>3, <2>4, <2>5, <2>6, <2>7
    DEF IsList, FreeOf, List, d, m
<1> QED
  BY <1>1, <1>2

\* Popping returns a block of the list and removes exactly that one, or
\* returns NULL from an empty list, and writes nothing: free_list_pop.
LEMMA PopIsList ==
    ASSUME NEW B, NULL \notin B,
           NEW l \in List(B), NEW w, DOMAIN w = B, NEW c \in Seq(B),
           IsList(l, w, c)
    PROVE  /\ Popped(l, w) \in List(B)
           /\ PoppedChain(l, c) \in Seq(B)
           /\ IsList(Popped(l, w), w, PoppedChain(l, c))
           /\ Top(l) = NULL <=> FreeOf(l, c) = {}
           /\ Top(l) # NULL => Top(l) \in FreeOf(l, c)
           /\ FreeOf(Popped(l, w), PoppedChain(l, c))
                = FreeOf(l, c) \ {Top(l)}
<1> DEFINE m == l.mag
<1>0. m \in Seq(B) /\ l.head \in B \cup {NULL} /\ l = [mag |-> m, head |-> l.head]
  BY DEF List
<1>i. /\ l.head = IF c = <<>> THEN NULL ELSE Last(c)
      /\ \A i \in DOMAIN c :
             w[c[i]] = Link(IF i = 1 THEN NULL ELSE c[i-1])
      /\ Len(m) <= MAG_SIZE /\ Injective(m) /\ Injective(c)
      /\ ToSet(m) \cap ToSet(c) = {}
  BY DEF IsList
<1>t. ToSet(m) \subseteq B /\ ToSet(c) \subseteq B
  BY <1>0 DEF ToSet
<1>1. CASE m # <<>>
  <2>1. /\ Popped(l, w) = [mag |-> Front(m), head |-> l.head]
        /\ PoppedChain(l, c) = c /\ Top(l) = Last(m)
    BY <1>0, <1>1 DEF Popped, PoppedChain, Top
  <2>2. /\ Front(m) \in Seq(B) /\ Last(m) \in ToSet(m)
        /\ ToSet(Front(m)) = ToSet(m) \ {Last(m)} /\ Injective(Front(m))
    BY <1>0, <1>1, <1>i, FrontSet
  <2>4. Len(Front(m)) <= MAG_SIZE
    <3>1. Len(Front(m)) = Len(m) - 1 /\ Len(m) \in Nat
      BY <1>0, <1>1, FrontSet
    <3> QED
      BY <1>i, <3>1, MagSizeAssumption
  <2> HIDE DEF m
  <2>3. IsList(Popped(l, w), w, c)
    BY <1>i, <2>1, <2>2, <2>4 DEF IsList
  <2> QED
    BY <1>0, <1>i, <1>t, <2>1, <2>2, <2>3 DEF FreeOf, List, m
<1>2. CASE m = <<>> /\ c # <<>>
  <2>1. /\ PoppedChain(l, c) = Front(c)
        /\ Top(l) = Last(c) /\ l.head = Last(c)
    BY <1>0, <1>2, <1>i DEF PoppedChain, Top
  <2>2. /\ Front(c) \in Seq(B) /\ Last(c) \in ToSet(c)
        /\ ToSet(Front(c)) = ToSet(c) \ {Last(c)}
        /\ Injective(Front(c)) /\ Len(Front(c)) = Len(c) - 1
        /\ \A i \in 1..Len(c)-1 : Front(c)[i] = c[i]
    BY <1>2, <1>i, FrontSet
  <2> DEFINE n == Len(c)   d == Front(c)
             h == IF n = 1 THEN NULL ELSE c[n-1]
  <2>3. n \in Nat \ {0} /\ Last(c) = c[n] /\ DOMAIN c = 1..n
    BY <1>2 DEF Last
  <2>4. Popped(l, w) = [mag |-> m, head |-> h]
    <3>1. w[l.head] = Link(h)
      BY <2>1, <2>3, <1>i
    <3>2. Target(w[l.head]) = h
      BY <3>1 DEF Target, Link
    <3>3. l.head # NULL
      BY <2>1, <2>2, <1>t
    <3> QED
      BY <1>0, <1>2, <3>2, <3>3 DEF Popped
  <2>5. h = IF d = <<>> THEN NULL ELSE Last(d)
    <3>1. d = <<>> <=> n = 1
      BY <2>2, <2>3
    <3>2. n # 1 => Last(d) = c[n-1]
      BY <2>2, <2>3 DEF Last
    <3> QED
      BY <3>1, <3>2
  <2>6. \A i \in DOMAIN d : w[d[i]] = Link(IF i = 1 THEN NULL ELSE d[i-1])
    <3> SUFFICES ASSUME NEW i \in DOMAIN d
                 PROVE  w[d[i]] = Link(IF i = 1 THEN NULL ELSE d[i-1])
      OBVIOUS
    <3>1. i \in 1..n-1 /\ d[i] = c[i] /\ (i # 1 => d[i-1] = c[i-1])
      BY <2>2, <2>3
    <3> QED
      BY <1>i, <2>3, <3>1
  <2>7. h \in B \cup {NULL}
    BY <2>3
  <2>8. ToSet(m) = {}
    BY <1>2 DEF ToSet
  <2> HIDE DEF m, d, h, n
  <2>9. IsList(Popped(l, w), w, d)
    BY <1>i, <2>1, <2>2, <2>4, <2>5, <2>6, <2>8 DEF IsList, d
  <2> QED
    BY <1>0, <1>i, <1>t, <2>1, <2>2, <2>4, <2>7, <2>8, <2>9
    DEF FreeOf, List, d, m
<1>3. CASE m = <<>> /\ c = <<>>
  <2>1. Popped(l, w) = l /\ PoppedChain(l, c) = c /\ Top(l) = NULL
    BY <1>3, <1>i DEF Popped, PoppedChain, Top
  <2>2. FreeOf(l, c) = {}
    BY <1>3 DEF FreeOf, ToSet
  <2> QED
    BY <2>1, <2>2
<1> QED
  BY <1>1, <1>2, <1>3

\* A write outside the chain leaves the list as it is: what a program writes
\* in a block it holds never breaks a free list.
LEMMA ListFrame ==
    ASSUME NEW l, NEW w, NEW w2, NEW c,
           IsList(l, w, c),
           \A a \in ToSet(c) : w2[a] = w[a]
    PROVE  IsList(l, w2, c)
  BY DEF IsList, ToSet

\* Carving a page pushes its blocks on an empty list: all of them are in the
\* list afterwards, and only they are written, bump_allocate_class.
LEMMA PushAllIsList ==
    ASSUME NEW B, NULL \notin B, NEW w, DOMAIN w = B,
           NEW bs \in Seq(B), Injective(bs)
    PROVE  /\ PushAll(EmptyList, bs) \in List(B)
           /\ PushAllChain(EmptyList, <<>>, bs) \in Seq(B)
           /\ IsList(PushAll(EmptyList, bs), PushAllMem(EmptyList, w, bs),
                     PushAllChain(EmptyList, <<>>, bs))
           /\ FreeOf(PushAll(EmptyList, bs), PushAllChain(EmptyList, <<>>, bs))
                = ToSet(bs)
           /\ DOMAIN PushAllMem(EmptyList, w, bs) = B
           /\ \A a \in B \ ToSet(bs) : PushAllMem(EmptyList, w, bs)[a] = w[a]
<1> DEFINE n == Len(bs)
           k == Fill(EmptyList, bs)
           m == SubSeq(bs, 1, k)
           d == SubSeq(bs, k+1, n)
           h == IF k < n THEN bs[n] ELSE NULL
           w2 == PushAllMem(EmptyList, w, bs)
<1>1. n \in Nat /\ DOMAIN bs = 1..n /\ k \in 0..n /\ k <= MAG_SIZE
  BY MagSizeAssumption DEF Fill, EmptyList
<1>2. /\ m \in Seq(B) /\ Len(m) = k /\ d \in Seq(B) /\ Len(d) = n - k
      /\ \A i \in 1..(n-k) : d[i] = bs[k+i]
      /\ ToSet(bs) = ToSet(m) \cup ToSet(d)
      /\ Injective(m) /\ Injective(d) /\ ToSet(m) \cap ToSet(d) = {}
  <2>1. k \in 0..Len(bs)
    BY <1>1
  <2> HIDE DEF k
  <2>2. /\ m \in Seq(B) /\ Len(m) = k /\ d \in Seq(B) /\ Len(d) = Len(bs) - k
        /\ \A i \in 1..(Len(bs)-k) : d[i] = bs[k+i]
    BY <2>1, SplitSeq
  <2>3. ToSet(bs) = ToSet(m) \cup ToSet(d)
    BY <2>1, SplitSeq
  <2>4. Injective(m) /\ Injective(d) /\ ToSet(m) \cap ToSet(d) = {}
    BY <2>1, SplitSeq
  <2> QED
    BY <2>2, <2>3, <2>4
<1>3. PushAll(EmptyList, bs) = [mag |-> m, head |-> h]
  <2>1. <<>> \o m = m
    BY <1>2
  <2> QED
    BY <2>1 DEF PushAll, EmptyList
<1>4. PushAllChain(EmptyList, <<>>, bs) = d
  BY <1>2 DEF PushAllChain
<1>5. DOMAIN w2 = B /\ \A a \in B \ ToSet(bs) : w2[a] = w[a]
  BY <1>1 DEF PushAllMem, ToSet
<1> HIDE DEF m, d, h, k, n
<1>6. \A i \in 1..(n-k) : w2[d[i]] = Link(IF i = 1 THEN NULL ELSE d[i-1])
  <2> SUFFICES ASSUME NEW i \in 1..(n-k)
               PROVE  w2[d[i]] = Link(IF i = 1 THEN NULL ELSE d[i-1])
    OBVIOUS
  <2>1. k+i \in k+1..n /\ k+i \in 1..n /\ (i # 1 => i-1 \in 1..(n-k) /\ k+(i-1) = k+i-1)
    BY <1>1
  <2>2. d[i] = bs[k+i] /\ d[i] \in B
    BY <1>2, <2>1
  <2>3. \A j \in k+1..n : bs[j] = d[i] <=> j = k+i
    BY <1>1, <2>1, <2>2 DEF Injective
  <2>4. (CHOOSE j \in k+1..n : bs[j] = d[i]) = k+i
    BY <2>1, <2>3
  <2>5. w2[d[i]] = Link(IF k+i = k+1 THEN NULL ELSE bs[k+i-1])
    BY <1>1, <2>1, <2>2, <2>3, <2>4 DEF PushAllMem, EmptyList, k
  <2>6. i # 1 => d[i-1] = bs[k+i-1]
    BY <1>2, <2>1
  <2>7. k+i = k+1 <=> i = 1
    BY <1>1
  <2> QED
    BY <2>5, <2>6, <2>7
<1>7. h = IF d = <<>> THEN NULL ELSE Last(d)
  <2>1. d = <<>> <=> k = n
    <3>1. d = <<>> <=> Len(d) = 0
      BY <1>2
    <3> QED
      BY <1>1, <1>2, <3>1
  <2>2. k < n => n-k \in 1..(n-k) /\ k+(n-k) = n
    BY <1>1
  <2>3. k < n => Last(d) = bs[n]
    BY <1>2, <2>2 DEF Last
  <2> QED
    BY <1>1, <2>1, <2>3 DEF h
<1>8. h \in B \cup {NULL}
  BY <1>1 DEF h
<1>9. DOMAIN d = 1..(n-k)
  BY <1>2
<1> HIDE DEF w2
<1>10. IsList([mag |-> m, head |-> h], w2, d)
  BY <1>1, <1>2, <1>6, <1>7, <1>9 DEF IsList
<1> QED
  BY <1>1, <1>2, <1>3, <1>4, <1>5, <1>8, <1>10 DEF List, FreeOf, w2

\* Pushing a sequence that is one block longer is pushing that block last.
LEMMA PushAllOneMore ==
    ASSUME NEW B, NEW l \in List(B), Len(l.mag) <= MAG_SIZE, NEW w, DOMAIN w = B,
           NEW c \in Seq(B), NEW p \in Seq(B), Injective(p),
           NEW b \in B, b \notin ToSet(p)
    PROVE  /\ PushAll(l, Append(p, b)) = Push(PushAll(l, p), b)
           /\ PushAllMem(l, w, Append(p, b))
                = PushMem(PushAll(l, p), PushAllMem(l, w, p), b)
           /\ PushAllChain(l, c, Append(p, b))
                = PushChain(PushAll(l, p), PushAllChain(l, c, p), b)
<1> DEFINE q == Append(p, b)
           n == Len(p)
           m == l.mag
           room == MAG_SIZE - Len(m)
<1>1. /\ q \in Seq(B) /\ Len(q) = n+1 /\ n \in Nat /\ DOMAIN p = 1 .. n
      /\ DOMAIN q = 1 .. n+1 /\ q[n+1] = b /\ \A i \in 1 .. n : q[i] = p[i] /\ p[i] \in B
  OBVIOUS
<1>2. m \in Seq(B) /\ Len(m) \in Nat /\ room \in Nat /\ Len(m) + room = MAG_SIZE
  BY MagSizeAssumption DEF List
<1>3. /\ Fill(l, p) = IF n < room THEN n ELSE room
      /\ Fill(l, q) = IF n+1 < room THEN n+1 ELSE room
  BY <1>1 DEF Fill
<1>4. \A i \in 1 .. n : p[i] # b
  BY <1>1 DEF ToSet
<1>5. \A i, j \in 1 .. n : p[i] = p[j] => i = j
  BY <1>1 DEF Injective
<1>l. Len(p) = n /\ l.mag = m
  OBVIOUS
<1> HIDE DEF q, n, m, room
<1>6. CASE n < room
  <2>1. Fill(l, p) = n /\ Fill(l, q) = n+1
    BY <1>1, <1>2, <1>3, <1>6
  <2>2. SubSeq(p, 1, n) = p /\ SubSeq(q, 1, n+1) = q
    BY <1>1, SubSeqFull DEF n
  <2>3. /\ PushAll(l, p) = [mag |-> m \o p, head |-> l.head]
        /\ PushAll(l, q) = [mag |-> m \o q, head |-> l.head]
    <3>1. ~(n < n) /\ ~(n+1 < n+1)
      BY <1>1
    <3> QED
      BY <1>1, <1>l, <2>1, <2>2, <3>1 DEF PushAll
  <2>4. m \o p \in Seq(B) /\ Len(m \o p) = Len(m) + n
    BY <1>2, ConcatProperties DEF n
  <2>5. m \o q = Append(m \o p, b)
    <3>1. q = p \o <<b>> /\ Append(m \o p, b) = (m \o p) \o <<b>> /\ <<b>> \in Seq(B)
      BY <2>4, AppendIsConcat DEF q
    <3> QED
      BY <1>2, <3>1, ConcatAssociative
  <2>6. HasRoom(PushAll(l, p))
    BY <1>1, <1>2, <1>6, <2>3, <2>4 DEF HasRoom
  <2>7. PushAll(l, q) = Push(PushAll(l, p), b)
    <3> DEFINE L == PushAll(l, p)
    <3>1. Push(L, b) = [L EXCEPT !.mag = Append(L.mag, b)]
      BY <2>6 DEF Push
    <3>2. L = [mag |-> m \o p, head |-> l.head]
      BY <2>3
    <3> HIDE DEF L
    <3>3. Push(L, b) = [mag |-> Append(m \o p, b), head |-> l.head]
      BY <3>1, <3>2
    <3> QED
      BY <2>3, <2>5, <3>3 DEF L
  <2>8. PushAllMem(l, w, q) = PushAllMem(l, w, p)
    <3>1. n+1 .. n = {} /\ (n+1)+1 .. n+1 = {}
      BY <1>1
    <3> QED
      BY <1>1, <2>1, <3>1 DEF PushAllMem, n
  <2>9. PushAllChain(l, c, q) = PushAllChain(l, c, p)
    <3>1. SubSeq(p, n+1, n) = <<>> /\ SubSeq(q, (n+1)+1, n+1) = <<>>
      BY <1>1, SubSeqEmpty
    <3> QED
      BY <1>1, <2>1, <3>1 DEF PushAllChain, n
  <2> QED
    BY <2>6, <2>7, <2>8, <2>9 DEF PushMem, PushChain, q
<1>7. CASE ~(n < room)
  <2> DEFINE k == room
             first == SubSeq(p, 1, k)
             rest == SubSeq(p, k+1, n)
  <2>1. k \in Nat /\ k <= n /\ Fill(l, p) = k /\ Fill(l, q) = k
    BY <1>1, <1>2, <1>3, <1>7
  <2>2. k \in 0 .. n
    BY <1>1, <2>1
  <2> HIDE DEF k
  <2>3. SubSeq(q, 1, k) = first /\ first \in Seq(B) /\ Len(first) = k
    <3>1. \A i \in 1 .. k : p[i] \in B /\ q[i] = p[i] /\ q[i] \in B /\ 1+i-1 = i
      BY <1>1, <2>1
    <3>2. /\ first \in Seq(B) /\ Len(first) = k
          /\ \A i \in 1 .. k : first[i] = p[1+i-1]
      <4>1. k-1+1 = k /\ 1 \in Int /\ k \in Int /\ (1 <= k \/ k = 0)
        BY <2>1
      <4> QED
        BY <3>1, <4>1, SubSeqProperties
    <3>3. /\ SubSeq(q, 1, k) \in Seq(B) /\ Len(SubSeq(q, 1, k)) = k
          /\ \A i \in 1 .. k : SubSeq(q, 1, k)[i] = q[1+i-1]
      <4>1. k-1+1 = k /\ 1 \in Int /\ k \in Int /\ (1 <= k \/ k = 0)
        BY <2>1
      <4> QED
        BY <3>1, <4>1, SubSeqProperties
    <3>4. \A i \in 1 .. k : SubSeq(q, 1, k)[i] = first[i]
      BY <3>1, <3>2, <3>3
    <3> HIDE DEF first
    <3> QED
      BY <3>2, <3>3, <3>4, SeqEqual
  <2>4. SubSeq(q, k+1, n+1) = Append(rest, b) /\ rest \in Seq(B)
    <3> DEFINE f == k+1
    <3>1. f \in Int /\ n \in Int /\ f \in 1 .. n+1 /\ n+1 \in f .. n+1 /\ (n+1)-1 = n
      BY <1>1, <2>1
    <3>2. \A i \in f .. n : p[i] \in B /\ q[i] = p[i] /\ q[i] \in B
      BY <1>1, <2>1
    <3>3. \A i \in 1 .. n-f+1 : f+i-1 \in f .. n
      BY <1>1, <2>1
    <3> HIDE DEF f
    <3>4. /\ SubSeq(p, f, n) \in Seq(B) /\ SubSeq(q, f, n) \in Seq(B)
          /\ Len(SubSeq(p, f, n)) = IF f <= n THEN n-f+1 ELSE 0
          /\ Len(SubSeq(q, f, n)) = IF f <= n THEN n-f+1 ELSE 0
          /\ \A i \in 1 .. n-f+1 : SubSeq(p, f, n)[i] = p[f+i-1]
          /\ \A i \in 1 .. n-f+1 : SubSeq(q, f, n)[i] = q[f+i-1]
      BY <3>1, <3>2, SubSeqProperties
    <3>5. SubSeq(q, f, n) = SubSeq(p, f, n)
      <4>1. \A i \in 1 .. Len(SubSeq(p, f, n)) : i \in 1 .. n-f+1
        BY <3>1, <3>4
      <4>2. \A i \in 1 .. Len(SubSeq(p, f, n)) :
               SubSeq(q, f, n)[i] = SubSeq(p, f, n)[i]
        BY <3>2, <3>3, <3>4, <4>1
      <4> QED
        BY <3>4, <4>2, SeqEqual
    <3>6. SubSeq(q, f, n+1) = SubSeq(q, f, n) \o <<b>>
      <4>1. f \in 1 .. Len(q) /\ n+1 \in f .. Len(q)
        BY <1>1, <3>1
      <4>2. SubSeq(q, f, n+1) = SubSeq(q, f, (n+1)-1) \o <<q[n+1]>>
        BY <1>1, <4>1, SubSeqRecursiveSecond
      <4> QED
        BY <1>1, <3>1, <4>2
    <3>7. Append(SubSeq(p, f, n), b) = SubSeq(p, f, n) \o <<b>>
      BY <3>4, AppendIsConcat
    <3> QED
      BY <3>4, <3>5, <3>6, <3>7 DEF f
  <2> HIDE DEF first, rest
  <2> DEFINE h == IF k < n THEN p[n] ELSE l.head
  <2>5. /\ PushAll(l, p) = [mag |-> m \o first, head |-> h]
        /\ PushAll(l, q) = [mag |-> m \o first, head |-> b]
    <3>1. k < n+1
      BY <1>1, <2>1
    <3> QED
      BY <1>1, <2>1, <2>3, <3>1 DEF PushAll, n, m, first
  <2>6. Len(m \o first) = MAG_SIZE
    <3>1. Len(m \o first) = Len(m) + k
      BY <1>2, <2>3, ConcatProperties
    <3> QED
      BY <1>2, <3>1 DEF k
  <2> HIDE DEF h
  <2>7. ~HasRoom(PushAll(l, p))
    BY <2>5, <2>6, MagSizeAssumption DEF HasRoom
  <2>8. PushAll(l, q) = Push(PushAll(l, p), b)
    <3> DEFINE L == PushAll(l, p)
    <3>1. Push(L, b) = [L EXCEPT !.head = b]
      BY <2>7 DEF Push
    <3>2. L = [mag |-> m \o first, head |-> h]
      BY <2>5
    <3> HIDE DEF L
    <3>3. Push(L, b) = [mag |-> m \o first, head |-> b]
      BY <3>1, <3>2
    <3> QED
      BY <2>5, <3>3 DEF L
  <2>9. PushAllChain(l, c, q) = Append(PushAllChain(l, c, p), b)
    <3>1. PushAllChain(l, c, p) = c \o rest /\ PushAllChain(l, c, q) = c \o Append(rest, b)
      BY <1>1, <2>1, <2>4 DEF PushAllChain, rest, n
    <3>2. c \o rest \in Seq(B) /\ <<b>> \in Seq(B) /\ Append(rest, b) = rest \o <<b>>
      BY <2>4, ConcatProperties, AppendIsConcat
    <3>3. Append(c \o rest, b) = (c \o rest) \o <<b>>
      BY <3>2, AppendIsConcat
    <3> QED
      BY <2>4, <3>1, <3>2, <3>3, ConcatAssociative
  <2>10. PushAllMem(l, w, q) = [PushAllMem(l, w, p) EXCEPT ![b] = Link(h)]
    <3> DEFINE u == PushAllMem(l, w, p)
               v == PushAllMem(l, w, q)
               At(s, e, a) == CHOOSE i \in k+1 .. e : s[i] = a
    <3>1. /\ u = [a \in B |-> IF \E i \in k+1 .. n : p[i] = a
                              THEN Link(IF At(p, n, a) = k+1 THEN l.head
                                        ELSE p[At(p, n, a) - 1])
                              ELSE w[a]]
          /\ v = [a \in B |-> IF \E i \in k+1 .. n+1 : q[i] = a
                              THEN Link(IF At(q, n+1, a) = k+1 THEN l.head
                                        ELSE q[At(q, n+1, a) - 1])
                              ELSE w[a]]
      BY <1>1, <2>1 DEF PushAllMem, n
    <3> HIDE DEF u, v, At
    <3>2. v[b] = Link(h)
      <4>1. n+1 \in k+1 .. n+1 /\ \A i \in k+1 .. n+1 : q[i] = b <=> i = n+1
        <5>1. \A i \in k+1 .. n+1 : i \in 1 .. n+1 /\ (i # n+1 => i \in 1 .. n)
          BY <1>1, <2>1
        <5> QED
          BY <1>1, <1>4, <2>1, <5>1
      <4>2. At(q, n+1, b) = n+1
        BY <4>1 DEF At
      <4>3. v[b] = Link(IF n+1 = k+1 THEN l.head ELSE q[n+1 - 1])
        <5>1. \E i \in k+1 .. n+1 : q[i] = b
          BY <4>1
        <5>2. v[b] = Link(IF At(q, n+1, b) = k+1 THEN l.head ELSE q[At(q, n+1, b) - 1])
          BY <3>1, <5>1
        <5> QED
          BY <1>1, <2>1, <4>2, <5>2
      <4>4. /\ n+1 = k+1 => h = l.head
            /\ n+1 # k+1 => h = q[n+1 - 1]
        BY <1>1, <2>1 DEF h
      <4> QED
        BY <4>3, <4>4
    <3>3. ASSUME NEW a \in B, a # b PROVE v[a] = u[a]
      <4>1. \A i \in k+1 .. n : i \in k+1 .. n+1 /\ i \in 1 .. n /\ q[i] = p[i]
        BY <1>1, <2>1
      <4>2. \A i \in k+1 .. n+1 : q[i] = a => i \in k+1 .. n
        BY <1>1, <2>1, <3>3
      <4>3. CASE \E i \in k+1 .. n : p[i] = a
        <5>1. PICK i \in k+1 .. n : p[i] = a
          BY <4>3
        <5>2. \A j \in k+1 .. n : p[j] = a => j = i
          BY <1>5, <4>1, <5>1
        <5>3. \A j \in k+1 .. n+1 : q[j] = a <=> j = i
          BY <4>1, <4>2, <5>1, <5>2
        <5>4. At(p, n, a) = i /\ At(q, n+1, a) = i
          BY <4>1, <5>1, <5>2, <5>3 DEF At
        <5>5. i # k+1 => i-1 \in 1 .. n
          BY <1>1, <2>1
        <5>6. v[a] = Link(IF i = k+1 THEN l.head ELSE q[i-1])
          BY <3>1, <4>1, <5>3, <5>4
        <5>7. u[a] = Link(IF i = k+1 THEN l.head ELSE p[i-1])
          BY <3>1, <4>3, <5>4
        <5> QED
          BY <1>1, <5>5, <5>6, <5>7
      <4>4. CASE ~ \E i \in k+1 .. n : p[i] = a
        <5>1. ~ \E i \in k+1 .. n+1 : q[i] = a
          BY <4>1, <4>2, <4>4
        <5> QED
          BY <3>1, <4>4, <5>1
      <4> QED
        BY <4>3, <4>4
    <3>4. v = [a \in B |-> v[a]] /\ u = [a \in B |-> u[a]]
      BY <3>1
    <3>5. v = [u EXCEPT ![b] = Link(h)]
      BY <3>2, <3>3, <3>4
    <3> QED
      BY <3>5 DEF u, v
  <2>11. PushChain(PushAll(l, p), PushAllChain(l, c, p), b) = PushAllChain(l, c, q)
    BY <2>7, <2>9 DEF PushChain
  <2>12. PushMem(PushAll(l, p), PushAllMem(l, w, p), b) = PushAllMem(l, w, q)
    <3>1. PushAll(l, p).head = h
      BY <2>5
    <3> QED
      BY <2>7, <2>10, <3>1, Zenon DEF PushMem
  <2> QED
    BY <2>8, <2>11, <2>12 DEF q
<1> QED
  BY <1>6, <1>7
===============================================================================
