---------------------------- MODULE FreeListProofs ----------------------------
(***************************************************************************)
(* Proofs about FreeListSpec for every set of blocks and magazine size.    *)
(* TypeOK and NothingLost together are inductive; the other results follow *)
(* from them step by step.                                                 *)
(***************************************************************************)
EXTENDS FreeListSpec, FreeListTheorems, SumTheorems

IInv == TypeOK /\ NothingLost

\* The empty list, with every block held.
LEMMA InitIInv == Init => IInv
<1> SUFFICES ASSUME Init PROVE IInv
  OBVIOUS
<1>1. list = [mag |-> <<>>, head |-> NULL] /\ chain = <<>>
  BY DEF Init, EmptyList
<1>2. TypeOK
  BY <1>1 DEF Init, TypeOK, List, Word
<1>3. ToSet(<<>>) = {} /\ Injective(<<>>)
  BY DEF ToSet, Injective
<1>4. NothingLost
  BY <1>1, <1>3, MagSizeAssumption DEF Init, NothingLost, IsList, FreeOf
<1> QED
  BY <1>2, <1>4 DEF IInv

\* What a step does to the memory and to the list, used by every theorem below.
LEMMA PushStep ==
    ASSUME IInv, NEW b \in Block, DoPush(b)
    PROVE  IInv' /\ \A a \in Block \ {b} : mem'[a] = mem[a]
<1>1. b \notin FreeOf(list, chain)
  BY DEF IInv, NothingLost, DoPush
<1>2. list \in List(Block) /\ mem \in [Block -> Word] /\ chain \in Seq(Block)
  BY DEF IInv, TypeOK
<1>3. /\ list' \in List(Block) /\ chain' \in Seq(Block)
      /\ IsList(list', mem', chain')
      /\ FreeOf(list', chain') = FreeOf(list, chain) \cup {b}
      /\ \A a \in Block \ {b} : mem'[a] = mem[a]
  <2>1. IsList(list, mem, chain)
    BY DEF IInv, NothingLost
  <2>2. /\ list' = Push(list, b) /\ mem' = PushMem(list, mem, b)
        /\ chain' = PushChain(list, chain, b)
    BY DEF DoPush
  <2>3. /\ Push(list, b) \in List(Block) /\ PushChain(list, chain, b) \in Seq(Block)
        /\ IsList(Push(list, b), PushMem(list, mem, b), PushChain(list, chain, b))
        /\ FreeOf(Push(list, b), PushChain(list, chain, b))
             = FreeOf(list, chain) \cup {b}
        /\ \A a \in Block \ {b} : PushMem(list, mem, b)[a] = mem[a]
    BY <1>1, <1>2, <2>1, BlockAssumption, PushIsList
  <2> QED
    BY <2>2, <2>3
<1>5. mem' \in [Block -> Word]
  BY <1>2 DEF DoPush, PushMem, Word, List
<1>6. FreeOf(list', chain') = Block \ held'
  BY <1>3 DEF DoPush, IInv, NothingLost, TypeOK
<1> QED
  BY <1>3, <1>5, <1>6 DEF IInv, TypeOK, NothingLost, DoPush

\* free_list_pop.
LEMMA PopStep ==
    ASSUME IInv, DoPop
    PROVE  /\ IInv'
           /\ Top(list) = NULL <=> held = Block
           /\ Top(list) # NULL => Top(list) \in Block \ held
<1>2. list \in List(Block) /\ mem \in [Block -> Word] /\ chain \in Seq(Block)
  BY DEF IInv, TypeOK
<1>3. /\ list' \in List(Block) /\ chain' \in Seq(Block)
      /\ IsList(list', mem', chain')
      /\ Top(list) = NULL <=> FreeOf(list, chain) = {}
      /\ Top(list) # NULL => Top(list) \in FreeOf(list, chain)
      /\ FreeOf(list', chain') = FreeOf(list, chain) \ {Top(list)}
  BY <1>2, BlockAssumption, PopIsList DEF IInv, NothingLost, DoPop
<1>5. held \subseteq Block /\ FreeOf(list, chain) = Block \ held
  BY DEF IInv, TypeOK, NothingLost
<1>6. FreeOf(list', chain') = Block \ held' /\ held' \subseteq Block
      /\ result' \in Block \cup {NULL}
  BY <1>3, <1>5 DEF DoPop
<1> QED
  BY <1>2, <1>3, <1>5, <1>6 DEF IInv, TypeOK, NothingLost, DoPop

\* A batch of carved blocks is a sequence without repetition.
LEMMA BatchSeq ==
    ASSUME NEW S \in SUBSET Block, NEW bs \in SetToSeqs(S)
    PROVE  bs \in Seq(Block) /\ ToSet(bs) \subseteq S /\ Injective(bs)
<1>1. Cardinality(S) \in Nat
  BY BlockAssumption, FS_Subset, FS_CardinalityType
<1> DEFINE n == Cardinality(S)
<1> HIDE DEF n
<1>2. /\ n \in Nat /\ bs \in [1..n -> S]
      /\ \A i, j \in 1..n : i # j => bs[i] # bs[j]
  BY <1>1 DEF SetToSeqs, n
<1>3. DOMAIN bs = 1..n /\ \A i \in 1..n : bs[i] \in S
  BY <1>2
<1>4. bs \in Seq(S)
  BY <1>2
<1>5. bs \in Seq(Block)
  BY <1>2
<1> QED
  BY <1>2, <1>3, <1>5 DEF ToSet, Injective

\* The loop of bump_allocate_class.
LEMMA CarveStep ==
    ASSUME IInv, NEW S \in SUBSET held, NEW bs \in SetToSeqs(S), DoCarve(bs)
    PROVE  IInv' /\ held = Block /\ ToSet(bs) \subseteq Block
<1>1. /\ list \in List(Block) /\ mem \in [Block -> Word] /\ chain \in Seq(Block)
      /\ held \subseteq Block /\ IsList(list, mem, chain)
      /\ FreeOf(list, chain) = Block \ held
  BY DEF IInv, TypeOK, NothingLost
<1>2. bs \in Seq(Block) /\ ToSet(bs) \subseteq S /\ Injective(bs)
  BY <1>1, BatchSeq
<1>3. FreeOf(list, chain) = {}
  BY <1>1, BlockAssumption, PopIsList DEF DoCarve
<1>4. list = EmptyList /\ chain = <<>>
  <2>1. ToSet(list.mag) = {} /\ ToSet(chain) = {}
    BY <1>3 DEF FreeOf
  <2>2. \A s \in Seq(Block) : ToSet(s) = {} => s = <<>>
    <3>1. \A s \in Seq(Block) : s # <<>> => 1 \in DOMAIN s
      OBVIOUS
    <3> QED
      BY <3>1 DEF ToSet
  <2>3. list.mag \in Seq(Block) /\ list = [mag |-> list.mag, head |-> list.head]
    BY <1>1 DEF List
  <2>4. list.mag = <<>> /\ chain = <<>>
    BY <1>1, <2>1, <2>2, <2>3
  <2>5. list.head = NULL
    BY <1>1, <2>4 DEF IsList
  <2> QED
    BY <2>3, <2>4, <2>5 DEF EmptyList
<1>5. /\ list' \in List(Block) /\ chain' \in Seq(Block)
      /\ IsList(list', mem', chain') /\ FreeOf(list', chain') = ToSet(bs)
  <2>1. DOMAIN mem = Block
    BY <1>1
  <2>2. /\ PushAll(EmptyList, bs) \in List(Block)
        /\ PushAllChain(EmptyList, <<>>, bs) \in Seq(Block)
        /\ IsList(PushAll(EmptyList, bs), PushAllMem(EmptyList, mem, bs),
                  PushAllChain(EmptyList, <<>>, bs))
        /\ FreeOf(PushAll(EmptyList, bs), PushAllChain(EmptyList, <<>>, bs))
             = ToSet(bs)
    BY <1>2, <2>1, BlockAssumption, PushAllIsList
  <2> QED
    BY <1>4, <2>2 DEF DoCarve
<1>6. mem' \in [Block -> Word]
  <2> DEFINE k == Fill(list, bs)
  <2>1. k \in 0..Len(bs) /\ Len(bs) \in Nat /\ \A i \in 1..Len(bs) : bs[i] \in Block
    <3>1. Len(list.mag) = 0
      BY <1>4 DEF EmptyList
    <3> QED
      BY <1>2, <3>1, MagSizeAssumption DEF Fill
  <2>2. list.head = NULL
    BY <1>4 DEF EmptyList
  <2> HIDE DEF k
  <2>3. \A i \in k+1..Len(bs) :
           (IF i = k+1 THEN list.head ELSE bs[i-1]) \in Block \cup {NULL}
    BY <2>1, <2>2
  <2>4. ASSUME NEW a \in Block PROVE PushAllMem(list, mem, bs)[a] \in Word
    <3>1. DOMAIN mem = Block /\ mem[a] \in Word
      BY <1>1
    <3>2. CASE \E i \in k+1..Len(bs) : bs[i] = a
      <4> DEFINE i == CHOOSE i \in k+1..Len(bs) : bs[i] = a
                 target == IF i = k+1 THEN list.head ELSE bs[i-1]
      <4>1. i \in k+1..Len(bs)
        BY <3>2
      <4>2. PushAllMem(list, mem, bs)[a] = Link(target)
        BY <3>1, <3>2 DEF PushAllMem, k
      <4> HIDE DEF i
      <4>3. target \in Block \cup {NULL}
        BY <2>3, <4>1
      <4> QED
        BY <4>2, <4>3 DEF Word
    <3>3. CASE ~ \E i \in k+1..Len(bs) : bs[i] = a
      BY <3>1, <3>3 DEF PushAllMem, k
    <3> QED
      BY <3>2, <3>3
  <2>5. mem' = [a \in Block |-> PushAllMem(list, mem, bs)[a]]
    BY <1>1 DEF DoCarve, PushAllMem
  <2> QED
    BY <2>4, <2>5
<1>7. held = Block /\ held' \subseteq Block /\ ToSet(bs) = Block \ held'
      /\ ToSet(bs) \subseteq Block
  BY <1>1, <1>2, <1>3 DEF DoCarve
<1>8. result' \in Block \cup {NULL}
  BY DEF IInv, TypeOK, DoCarve
<1> QED
  BY <1>5, <1>6, <1>7, <1>8 DEF IInv, TypeOK, NothingLost

\* The program writes in a block it holds.
LEMMA WriteStep ==
    ASSUME IInv, NEW b \in Block, NEW v \in Value, Write(b, v)
    PROVE  IInv'
<1>1. b \notin ToSet(chain)
  BY DEF IInv, NothingLost, FreeOf, Write
<1>2. \A a \in ToSet(chain) : mem'[a] = mem[a]
  BY <1>1 DEF Write, IInv, TypeOK, ToSet
<1>3. IsList(list, mem', chain)
  BY <1>2, ListFrame DEF IInv, NothingLost
<1>4. mem' \in [Block -> Word]
  BY DEF IInv, TypeOK, Write, Word
<1> QED
  BY <1>3, <1>4 DEF IInv, TypeOK, NothingLost, Write

\* Every step keeps the list, its links and its blocks.
LEMMA NextIInv == IInv /\ [Next]_vars => IInv'
<1> SUFFICES ASSUME IInv, [Next]_vars PROVE IInv'
  OBVIOUS
<1>1. CASE \E b \in Block : DoPush(b)
  BY <1>1, PushStep
<1>2. CASE DoPop
  BY <1>2, PopStep
<1>3. CASE \E b \in Block, v \in Value : Write(b, v)
  BY <1>3, WriteStep
<1>4. CASE \E S \in SUBSET held : \E bs \in SetToSeqs(S) : DoCarve(bs)
  BY <1>4, CarveStep
<1>5. CASE UNCHANGED vars
  BY <1>5 DEF vars, IInv, TypeOK, NothingLost
<1> QED
  BY <1>1, <1>2, <1>3, <1>4, <1>5 DEF Next

\* The invariant holds of every state.
LEMMA Invariance == Spec => []IInv
  BY InitIInv, NextIInv, PTL DEF Spec

\* The list, its links and what the program writes keep their types.
THEOREM TypeCorrect == Spec => []TypeOK
  BY Invariance, PTL DEF IInv

\* No block is lost between the magazine and the chain, and none is listed
\* twice, whatever the order of the pushes and pops.
THEOREM NothingIsLost == Spec => []NothingLost
  BY Invariance, PTL DEF IInv

\* The magazine and the chain implement a set of free blocks: a pop returns a
\* block nobody holds, and NULL only when every block is held.
THEOREM ImplementsFreeSet == Spec => IsFreeSet
<1>1. Init => Free!Init
  BY DEF Init, Free!Init
<1>2. IInv /\ [Next]_vars => [Free!Next]_(Free!vars)
  <2> SUFFICES ASSUME IInv, [Next]_vars PROVE [Free!Next]_(Free!vars)
    OBVIOUS
  <2>1. CASE \E b \in Block : DoPush(b)
    BY <2>1 DEF DoPush, Free!Next, Free!Push
  <2>2. CASE DoPop
    BY <2>2, PopStep DEF DoPop, Free!Next, Free!PopBlock, Free!PopEmpty
  <2>3. CASE \E b \in Block, v \in Value : Write(b, v)
    BY <2>3 DEF Write, Free!vars
  <2>4. CASE \E S \in SUBSET held : \E bs \in SetToSeqs(S) : DoCarve(bs)
    <3>1. PICK S \in SUBSET held : \E bs \in SetToSeqs(S) : DoCarve(bs)
      BY <2>4
    <3>2. PICK bs \in SetToSeqs(S) : DoCarve(bs)
      BY <3>1
    <3>3. held = Block /\ ToSet(bs) \in SUBSET Block
      BY <3>2, CarveStep
    <3>4. Free!Fill(ToSet(bs))
      BY <3>2, <3>3 DEF DoCarve, Free!Fill
    <3> QED
      BY <3>3, <3>4 DEF Free!Next
  <2>5. CASE UNCHANGED vars
    BY <2>5 DEF vars, Free!vars
  <2> QED
    BY <2>1, <2>2, <2>3, <2>4, <2>5 DEF Next
<1> QED
  BY <1>1, <1>2, Invariance, PTL DEF Spec, IsFreeSet, Free!Spec

-------------------------------------------------------------------------------
(* The loop that carves a page.  The pool is modelled with its closed form,  *)
(* and the lemmas here are what allows that.                                 *)

\* A turn of the loop.
PushOne(s, b) == [list  |-> Push(s.list, b),
                  mem   |-> PushMem(s.list, s.mem, b),
                  chain |-> PushChain(s.list, s.chain, b)]

\* The recursion of a fold of PushOne has a solution.
LEMMA RepeatedExists ==
    ASSUME NEW n \in Nat, NEW base, NEW bs
    PROVE  \E g : g = [s \in SUBSET (1 .. n) |->
                        IF s = {} THEN base ELSE PushOne(g[s \ {Max(s)}], bs[Max(s)])]
<1> DEFINE S == 1 .. n
           After(g, s) == IF s = {} THEN base
                                    ELSE PushOne(g[s \ {Max(s)}], bs[Max(s)])
           Upto(g, k) == \A s \in SUBSET S : Cardinality(s) <= k => g[s] = After(g, s)
           C == {k \in Nat : \E g : Upto(g, k)}
<1>1. IsFiniteSet(S)
  BY FS_Interval
<1>m. \A s \in SUBSET S : s # {} => Max(s) \in s
  BY Extremes
<1> HIDE DEF S
<1>2. \A s \in SUBSET S : IsFiniteSet(s) /\ Cardinality(s) \in Nat
  BY <1>1, FS_Subset, FS_CardinalityType
<1>3. Cardinality(S) \in Nat /\ \A s \in SUBSET S : Cardinality(s) <= Cardinality(S)
  BY <1>1, FS_Subset, FS_CardinalityType
<1>4. 0 \in C
  <2>1. \A s \in SUBSET S : Cardinality(s) <= 0 => s = {}
    BY <1>2, FS_EmptySet
  <2>2. Upto([s \in SUBSET S |-> base], 0)
    BY <2>1
  <2> QED
    BY <2>2
<1>5. ASSUME NEW k \in Nat, k \in C PROVE k+1 \in C
  <2>1. PICK g : Upto(g, k)
    BY <1>5
  <2> DEFINE h == [s \in SUBSET S |-> After(g, s)]
  <2>2. ASSUME NEW s \in SUBSET S, Cardinality(s) <= k+1, s # {}
        PROVE  h[s] = After(h, s)
    <3> DEFINE t == s \ {Max(s)}
    <3>1. t \in SUBSET S /\ Cardinality(t) <= k
      <4>1. Cardinality(t) = Cardinality(s) - 1
        BY <1>2, <1>m, <2>2, FS_RemoveElement
      <4> QED
        BY <1>2, <2>2, <4>1
    <3>2. g[t] = After(g, t)
      BY <2>1, <3>1
    <3>3. h[t] = After(g, t) /\ h[s] = After(g, s)
      BY <3>1
    <3> QED
      BY <2>2, <3>2, <3>3
  <2>3. \A s \in SUBSET S : s = {} => h[s] = After(h, s)
    OBVIOUS
  <2> HIDE DEF h, After
  <2>4. Upto(h, k+1)
    BY <2>2, <2>3
  <2> QED
    BY <2>4
<1> HIDE DEF C
<1>6. Cardinality(S) \in C
  BY <1>3, <1>4, <1>5, NatSet
<1>7. PICK g : Upto(g, Cardinality(S))
  BY <1>6 DEF C
<1> DEFINE h == [s \in SUBSET S |-> g[s]]
<1>8. ASSUME NEW s \in SUBSET S PROVE h[s] = After(h, s)
  <2>1. s \ {Max(s)} \in SUBSET S
    OBVIOUS
  <2> QED
    BY <1>3, <1>7, <2>1
<1>9. h = [s \in SUBSET S |-> After(h, s)]
  BY <1>8
<1> QED
  BY <1>9 DEF S

\* Carving a page in closed form leaves what pushing its blocks one after the
\* other leaves, bump_allocate_class.
LEMMA RepeatedPush ==
    ASSUME NEW B, NEW l \in List(B), Len(l.mag) <= MAG_SIZE,
           NEW w, w = [a \in B |-> w[a]], NEW c \in Seq(B),
           NEW bs \in Seq(B), Injective(bs)
    PROVE  [list  |-> PushAll(l, bs),
            mem   |-> PushAllMem(l, w, bs),
            chain |-> PushAllChain(l, c, bs)]
             = FoldLeft(PushOne, [list |-> l, mem |-> w, chain |-> c], bs)
<1> DEFINE n == Len(bs)
           S == 1 .. n
           base == [list |-> l, mem |-> w, chain |-> c]
           All(p) == [list  |-> PushAll(l, p),
                      mem   |-> PushAllMem(l, w, p),
                      chain |-> PushAllChain(l, c, p)]
           Solves(g) == g = [s \in SUBSET S |->
               IF s = {} THEN base ELSE PushOne(g[s \ {Max(s)}], bs[Max(s)])]
           g == CHOOSE f : Solves(f)
<1>1. n \in Nat /\ DOMAIN bs = S
  OBVIOUS
<1>2. FoldLeft(PushOne, base, bs) = g[S]
  BY <1>1 DEF FoldLeft, MapThenFoldSet
<1>3. Solves(g)
  <2>1. \E f : Solves(f)
    <3> HIDE DEF base, n
    <3> DEFINE Folds(f, x, y) == f = [s \in SUBSET S |->
                 IF s = {} THEN x ELSE PushOne(f[s \ {Max(s)}], y[Max(s)])]
    <3>1. \A x, y : \E f : Folds(f, x, y)
      BY <1>1, RepeatedExists
    <3> HIDE DEF Folds
    <3>2. \E f : Folds(f, base, bs)
      BY <3>1
    <3> QED
      BY <3>2 DEF Folds
  <2> HIDE DEF Solves
  <2> QED
    BY <2>1
<1>4. /\ g[{}] = base
      /\ \A s \in SUBSET S : s # {} => g[s] = PushOne(g[s \ {Max(s)}], bs[Max(s)])
  BY <1>3
<1> HIDE DEF g, base, n
<1>5. All(<<>>) = base
  <2>1. /\ l.mag \in Seq(B) /\ l = [mag |-> l.mag, head |-> l.head]
        /\ Len(l.mag) \in Nat
    BY DEF List
  <2>2. Fill(l, <<>>) = 0
    BY <2>1, MagSizeAssumption DEF Fill
  <2>3. SubSeq(<<>>, 1, 0) = <<>> /\ l.mag \o <<>> = l.mag /\ c \o <<>> = c
    BY <2>1, ConcatEmptySeq, SubSeqEmpty
  <2>4. PushAll(l, <<>>) = l
    BY <2>1, <2>2, <2>3 DEF PushAll
  <2>5. PushAllMem(l, w, <<>>) = w
    BY <2>2 DEF PushAllMem
  <2>6. PushAllChain(l, c, <<>>) = c
    <3>1. SubSeq(<<>>, 0+1, 0) = <<>>
      BY <2>3
    <3> QED
      BY <2>2, <2>3, <3>1 DEF PushAllChain
  <2> QED
    BY <2>4, <2>5, <2>6 DEF base
<1> DEFINE C == {k \in Nat : k <= n => g[1 .. k] = All(SubSeq(bs, 1, k))}
<1>6. 0 \in C
  <2>1. 1 .. 0 = {} /\ SubSeq(bs, 1, 0) = <<>>
    BY SubSeqEmpty
  <2> HIDE DEF All
  <2> QED
    BY <1>4, <1>5, <2>1
<1>7. ASSUME NEW k \in Nat, k \in C PROVE k+1 \in C
  <2> SUFFICES ASSUME k+1 <= n PROVE g[1 .. k+1] = All(SubSeq(bs, 1, k+1))
    OBVIOUS
  <2> DEFINE s == 1 .. k+1
             p == SubSeq(bs, 1, k)
             b == bs[k+1]
  <2>1. /\ s \in SUBSET S /\ s # {} /\ k+1 \in s /\ s \ {k+1} = 1 .. k
        /\ k \in 0 .. n /\ k+1 \in S /\ k <= n /\ \A i \in s : k+1 >= i
    <3>1. /\ k \in 0 .. n /\ k+1 \in 1 .. n /\ k <= n /\ k+1 \in 1 .. k+1
          /\ \A i \in 1 .. k+1 : i \in 1 .. n /\ k+1 >= i
          /\ \A i : i \in 1 .. k <=> i \in 1 .. k+1 /\ i # k+1
      BY <1>1
    <3> QED
      BY <3>1
  <2>2. Max(s) = k+1
    <3>1. \A x \in s : (\A y \in s : x >= y) => x = k+1
      BY <2>1
    <3>2. \A y \in s : k+1 >= y
      BY <2>1
    <3> HIDE DEF s
    <3> QED
      BY <2>1, <3>1, <3>2 DEF Max
  <2>3. g[s] = PushOne(g[1 .. k], b)
    <3> HIDE DEF s
    <3> QED
      BY <1>4, <2>1, <2>2
  <2>4. g[1 .. k] = All(p)
    BY <1>7, <2>1
  <2>5. /\ p \in Seq(B) /\ Injective(p) /\ b \in B /\ b \notin ToSet(p)
        /\ SubSeq(bs, 1, k+1) = Append(p, b)
    <3>1. /\ p \in Seq(B) /\ Len(p) = k /\ Injective(p)
          /\ \A i \in 1 .. k : p[i] = bs[i]
      <4>1. k \in 0 .. Len(bs)
        BY <2>1 DEF n
      <4> QED
        BY <4>1, SplitSeq
    <3>2. b \in B /\ \A i \in 1 .. k : i \in DOMAIN bs /\ k+1 \in DOMAIN bs /\ i # k+1
      BY <1>1, <2>1
    <3>3. \A i \in 1 .. k : bs[i] # b
      BY <3>2 DEF Injective
    <3> HIDE DEF b
    <3>4. b \notin ToSet(p)
      <4>1. DOMAIN p = 1 .. k
        BY <3>1
      <4> HIDE DEF p
      <4> QED
        BY <3>1, <3>3, <4>1 DEF ToSet
    <3>5. SubSeq(bs, 1, k+1) = Append(p, b)
      <4>1. 1 \in 1 .. Len(bs) /\ k+1 \in 1 .. Len(bs) /\ (k+1)-1 = k
        <5>1. 1 \in 1 .. n /\ k+1 \in 1 .. n /\ (k+1)-1 = k
          BY <1>1
        <5> QED
          BY <5>1 DEF n
      <4>2. SubSeq(bs, 1, k+1) = p \o <<b>>
        BY <4>1, SubSeqRecursiveSecond DEF b
      <4> QED
        BY <3>1, <3>2, <4>2, AppendIsConcat
    <3> QED
      BY <3>1, <3>2, <3>4, <3>5 DEF b
  <2> HIDE DEF p, b
  <2>6. /\ PushAll(l, Append(p, b)) = Push(PushAll(l, p), b)
        /\ PushAllMem(l, w, Append(p, b))
             = PushMem(PushAll(l, p), PushAllMem(l, w, p), b)
        /\ PushAllChain(l, c, Append(p, b))
             = PushChain(PushAll(l, p), PushAllChain(l, c, p), b)
    BY <2>5, PushAllOneMore
  <2>7. All(Append(p, b)) = PushOne(All(p), b)
    BY <2>6 DEF PushOne
  <2> HIDE DEF All, s
  <2>8. g[s] = All(SubSeq(bs, 1, k+1))
    BY <2>3, <2>4, <2>5, <2>7
  <2> QED
    BY <2>8 DEF s
<1> HIDE DEF C
<1>8. n \in C
  BY <1>1, <1>6, <1>7, NatSet
<1> HIDE DEF All
<1>9. g[S] = All(bs)
  <2>1. SubSeq(bs, 1, n) = bs
    BY SubSeqFull DEF n
  <2>2. g[1 .. n] = All(SubSeq(bs, 1, n))
    BY <1>1, <1>8 DEF C
  <2> QED
    BY <2>1, <2>2
<1> QED
  BY <1>2, <1>9 DEF All, base
===============================================================================
