--------------------------- MODULE TypedArrayProofs ---------------------------
(***************************************************************************)
(* The elements of a typed array stay in its block, and it owns no other,  *)
(* for every width of size_t, size of elements and limit of the pool.      *)
(***************************************************************************)
EXTENDS TypedArray, SequenceTheorems, SumTheorems

\* The array a in the memory h: its block, if it has one, is the only one and
\* has exactly the room of the capacity, which the pool could give.
Fits(h, a) ==
    /\ a \in [data : Block \cup {NULL}, length : Nat, capacity : Nat]
    /\ DOMAIN h = {a.data} \ {NULL}
    /\ a.data # NULL => h[a.data] \in [1 .. a.capacity -> Value \cup {UNKNOWN}]
    /\ a.data = NULL => a.capacity = 0
    /\ a.length <= a.capacity
    /\ a.capacity * ELEMENT <= MEMORY

\* The append_bulk under way asks for a sum that did not wrap.
Pending ==
    /\ call \in [src : Seq(Value), new_cap : 0 .. WRAP-1]
    /\ call # IDLE => /\ call.src \in Source
                      /\ arr.length + Len(call.src) < WRAP
                      /\ arr.length + Len(call.src) > arr.capacity

Inv == Fits(heap, arr) /\ Pending

-------------------------------------------------------------------------------
(* Arithmetic. *)

\* Room in bytes is room in elements, as the model of the pool computes it.
LEMMA Elements == ASSUME NEW n \in Nat, NEW e \in Nat \ {0}
                  PROVE  (n * e) \div e = n
<1>1. n * e \in Int
  OBVIOUS
<1>2. n * e = e * n + 0
  OBVIOUS
<1>. QED
  BY <1>1, <1>2, Z3

\* A capacity the pool could give doubles without wrapping.
LEMMA CapacityDoubles ==
    ASSUME NEW c \in Nat, c * ELEMENT <= MEMORY
    PROVE  2 * c < WRAP
<1>. SUFFICES ASSUME 2 * c >= WRAP PROVE FALSE
  BY ArrayAssumption
<1>. DEFINE k == 2 * c - WRAP
<1>1. k \in Nat /\ WRAP \in Nat /\ ELEMENT \in Nat
  BY ArrayAssumption
<1>2. (WRAP + k) * ELEMENT = WRAP * ELEMENT + k * ELEMENT
  BY <1>1
<1>3. k * ELEMENT >= 0
  BY <1>1
<1>4. (WRAP + k) * ELEMENT = 2 * (c * ELEMENT)
  BY <1>1
<1>. QED
  BY <1>2, <1>3, <1>4, <1>1, ArrayAssumption

-------------------------------------------------------------------------------
(* The elements. *)

\* The sequence that the array a stands for in the memory h.
Elems(h, a) == IF a.data = NULL THEN <<>> ELSE SubSeq(h[a.data], 1, a.length)

\* A sequence is known by its elements.
LEMMA ConcatIs ==
    ASSUME NEW S, NEW s \in Seq(S), NEW t \in Seq(S), NEW u \in Seq(S),
           Len(u) = Len(s) + Len(t),
           \A i \in 1 .. Len(s) + Len(t) :
              u[i] = IF i <= Len(s) THEN s[i] ELSE t[i - Len(s)]
    PROVE  u = s \o t
<1>. DEFINE c == s \o t
<1>1. /\ c \in Seq(S) /\ Len(c) = Len(u)
      /\ \A i \in 1 .. Len(u) : c[i] = u[i]
  BY ConcatProperties
<1>. HIDE DEF c
<1>2. c = u
  BY <1>1
<1>. QED
  BY <1>2 DEF c

\* An array that fits has length elements, those at the start of its block.
LEMMA ElemsAre ==
    ASSUME NEW h, NEW a, Fits(h, a)
    PROVE  /\ Elems(h, a) = [i \in 1 .. a.length |-> h[a.data][i]]
           /\ Elems(h, a) \in Seq(Value \cup {UNKNOWN})
           /\ Len(Elems(h, a)) = a.length
<1>1. a.length \in Nat /\ a.capacity \in Nat /\ a.length <= a.capacity
  BY DEF Fits
<1>2. CASE a.data = NULL
  <2>1. a.length = 0
    BY <1>1, <1>2 DEF Fits
  <2>. QED
    BY <1>2, <2>1 DEF Elems
<1>3. CASE a.data # NULL
  <2>. DEFINE b == h[a.data]
  <2>1. b \in [1 .. a.capacity -> Value \cup {UNKNOWN}]
    BY <1>3 DEF Fits
  <2>. HIDE DEF b
  <2>2. b \in Seq(Value \cup {UNKNOWN}) /\ Len(b) = a.capacity
    BY <1>1, <2>1
  <2>3. /\ SubSeq(b, 1, a.length) = [i \in 1 .. a.length |-> b[i]]
        /\ SubSeq(b, 1, a.length) \in Seq(Value \cup {UNKNOWN})
        /\ Len(SubSeq(b, 1, a.length)) = a.length
    BY <1>1, <2>2
  <2>. QED
    BY <1>3, <2>3 DEF Elems, b
<1>. QED
  BY <1>2, <1>3

-------------------------------------------------------------------------------
(* The functions of the array. *)

\* A reserve that succeeds leaves an array that fits, has the capacity asked
\* for and the same elements, whether the block moved or was extended; one that
\* is refused leaves the array as it was.
LEMMA ReservedFits ==
    ASSUME Fits(heap, arr), NEW new_cap \in 0 .. WRAP-1,
           NEW r \in Reserved(new_cap)
    PROVE  /\ Fits(r.heap, r.arr)
           /\ r.arr.length = arr.length
           /\ Elems(r.heap, r.arr) = Elems(heap, arr)
           /\ r.ok => r.arr.capacity >= new_cap
           /\ ~r.ok => r.arr = arr /\ r.heap = heap
           /\ r.arr.capacity >= arr.capacity
<1>. DEFINE size == new_cap * ELEMENT
<1>1. CASE r.heap = heap /\ r.arr = arr /\ (r.ok => new_cap <= arr.capacity)
  BY <1>1, ArrayAssumption DEF Fits
<1>2. CASE /\ new_cap > arr.capacity
           /\ \E o \in Obtained(arr.data, size) :
                 r = [ok |-> TRUE, heap |-> o.heap,
                      arr |-> [arr EXCEPT !.data = o.ptr, !.capacity = new_cap]]
  <2>1. PICK o \in Obtained(arr.data, size) :
           r = [ok |-> TRUE, heap |-> o.heap,
                arr |-> [arr EXCEPT !.data = o.ptr, !.capacity = new_cap]]
    BY <1>2
  <2>2. /\ size \in 1 .. MEMORY
        /\ o.ptr \in Block
        /\ o.heap = Moved(arr.data, o.ptr, size \div ELEMENT)
    BY <2>1 DEF Obtained
  <2>3. new_cap \in Nat /\ size \div ELEMENT = new_cap
    BY Elements, ArrayAssumption
  <2>4. /\ arr \in [data : Block \cup {NULL}, length : Nat, capacity : Nat]
        /\ arr.length <= arr.capacity
        /\ DOMAIN heap = {arr.data} \ {NULL}
        /\ arr.data # NULL =>
              heap[arr.data] \in [1 .. arr.capacity -> Value \cup {UNKNOWN}]
    BY DEF Fits
  <2>5. DOMAIN o.heap = {o.ptr}
    BY <2>2, <2>4 DEF Moved
  <2>6. o.heap[o.ptr]
          = Resized(IF arr.data = NULL THEN <<>> ELSE heap[arr.data], new_cap)
    BY <2>2, <2>3 DEF Moved
  <2>7. ASSUME NEW b, b = <<>> \/ b \in [1 .. arr.capacity -> Value \cup {UNKNOWN}]
        PROVE  Resized(b, new_cap) \in [1 .. new_cap -> Value \cup {UNKNOWN}]
    <3>1. CASE b = <<>>
      <4>1. \A i \in 1 .. new_cap : ~(i <= Len(b))
        BY <2>3, <3>1
      <4>. QED
        BY <4>1 DEF Resized
    <3>2. CASE b \in [1 .. arr.capacity -> Value \cup {UNKNOWN}]
      <4>1. Len(b) = arr.capacity
        BY <2>4, <3>2
      <4>2. \A i \in 1 .. new_cap : i <= Len(b) => b[i] \in Value \cup {UNKNOWN}
        BY <2>3, <2>4, <3>2, <4>1
      <4>. QED
        BY <4>2 DEF Resized
    <3>. QED
      BY <2>7, <3>1, <3>2
  <2>8. o.heap[o.ptr] \in [1 .. new_cap -> Value \cup {UNKNOWN}]
    BY <2>4, <2>6, <2>7
  <2>9. /\ r.arr \in [data : Block \cup {NULL}, length : Nat, capacity : Nat]
        /\ r.arr.data = o.ptr /\ r.arr.capacity = new_cap
        /\ r.arr.length = arr.length /\ r.heap = o.heap /\ r.ok
    BY <2>1, <2>2, <2>3, <2>4
  <2>10. Fits(r.heap, r.arr)
    BY <1>2, <2>2, <2>3, <2>4, <2>5, <2>8, <2>9, ArrayAssumption DEF Fits
  <2>11. \A i \in 1 .. arr.length : r.heap[r.arr.data][i] = heap[arr.data][i]
    <3>1. CASE arr.data = NULL
      <4>1. arr.length = 0
        BY <2>4, <3>1 DEF Fits
      <4>. QED
        BY <4>1
    <3>2. CASE arr.data # NULL
      <4>. DEFINE b == heap[arr.data]
      <4>1. b \in [1 .. arr.capacity -> Value \cup {UNKNOWN}]
        BY <2>4, <3>2
      <4>2. o.heap[o.ptr] = Resized(b, new_cap)
        BY <2>6, <3>2
      <4>. HIDE DEF b
      <4>3. Len(b) = arr.capacity
        BY <2>4, <4>1
      <4>4. \A i \in 1 .. arr.length : i \in 1 .. new_cap /\ i <= arr.capacity
        BY <1>2, <2>3, <2>4
      <4>5. \A i \in 1 .. arr.length : o.heap[o.ptr][i] = b[i]
        BY <4>2, <4>3, <4>4 DEF Resized
      <4>. QED
        BY <2>9, <4>5 DEF b
    <3>. QED
      BY <3>1, <3>2
  <2>12. Elems(r.heap, r.arr) = Elems(heap, arr)
    <3>1. Elems(r.heap, r.arr)
             = [i \in 1 .. r.arr.length |-> r.heap[r.arr.data][i]]
      BY <2>10, ElemsAre
    <3>2. Elems(heap, arr) = [i \in 1 .. arr.length |-> heap[arr.data][i]]
      BY ElemsAre
    <3>3. r.arr.length = arr.length
      BY <2>9
    <3>. QED
      BY <2>11, <3>1, <3>2, <3>3
  <2>. QED
    BY <1>2, <2>3, <2>4, <2>9, <2>10, <2>12
<1>3. CASE new_cap <= arr.capacity
  <2>1. r = [ok |-> TRUE, heap |-> heap, arr |-> arr]
    BY <1>3 DEF Reserved
  <2>. QED
    BY <1>1, <1>3, <2>1
<1>4. CASE ~(new_cap <= arr.capacity)
  <2>1. \/ r = [ok |-> FALSE, heap |-> heap, arr |-> arr]
        \/ \E o \in Obtained(arr.data, size) :
              r = [ok |-> TRUE, heap |-> o.heap,
                   arr |-> [arr EXCEPT !.data = o.ptr, !.capacity = new_cap]]
    <3>1. CASE size >= WRAP
      BY <1>4, <3>1, Zenon DEF Reserved, Refused
    <3>2. CASE ~(size >= WRAP)
      BY <1>4, <3>2, Zenon DEF Reserved, Refused, Old
    <3>. QED
      BY <3>1, <3>2
  <2>2. arr.capacity \in Nat /\ new_cap \in Nat
    BY DEF Fits
  <2>3. new_cap > arr.capacity
    BY <1>4, <2>2
  <2>4. CASE r = [ok |-> FALSE, heap |-> heap, arr |-> arr]
    BY <1>1, <2>4
  <2>5. CASE \E o \in Obtained(arr.data, size) :
                r = [ok |-> TRUE, heap |-> o.heap,
                     arr |-> [arr EXCEPT !.data = o.ptr, !.capacity = new_cap]]
    BY <1>2, <2>3, <2>5, Zenon
  <2>. QED
    BY <2>1, <2>4, <2>5, Zenon
<1>. QED
  BY <1>3, <1>4

\* Storing what there is room for leaves an array that fits, with the elements
\* it had and the new ones behind them.
LEMMA StoreFits ==
    ASSUME NEW r, Fits(r.heap, r.arr), NEW src \in Seq(Value), Store(r, src),
           r.arr.length + Len(src) <= r.arr.capacity, src # <<>>
    PROVE  /\ Fits(heap', arr')
           /\ arr'.length = r.arr.length + Len(src)
           /\ Elems(heap', arr') = Elems(r.heap, r.arr) \o src
<1>. DEFINE d == r.arr.data
            n == r.arr.length
<1>1. /\ r.arr \in [data : Block \cup {NULL}, length : Nat, capacity : Nat]
      /\ DOMAIN r.heap = {d} \ {NULL}
      /\ d # NULL => r.heap[d] \in [1 .. r.arr.capacity -> Value \cup {UNKNOWN}]
      /\ d = NULL => r.arr.capacity = 0
      /\ n <= r.arr.capacity /\ r.arr.capacity * ELEMENT <= MEMORY
  BY DEF Fits
<1>2. Len(src) \in Nat /\ Len(src) > 0
  OBVIOUS
<1>3. d # NULL /\ d \in DOMAIN r.heap
  BY <1>1, <1>2
<1>4. (n + Len(src)) % WRAP = n + Len(src)
  <2>1. 2 * r.arr.capacity < WRAP
    BY <1>1, CapacityDoubles
  <2>2. n + Len(src) \in 0 .. WRAP-1 /\ WRAP \in Nat
    BY <1>1, <1>2, <2>1, ArrayAssumption
  <2>. QED
    BY <2>2
<1>5. arr' = [r.arr EXCEPT !.length = n + Len(src)]
  BY <1>4 DEF Store
<1>6. DOMAIN heap' = DOMAIN r.heap
  BY DEF Store
<1>7. heap'[d] = [i \in DOMAIN r.heap[d] |->
                    IF i \in n+1 .. n+Len(src) THEN src[i-n] ELSE r.heap[d][i]]
  BY <1>3 DEF Store
<1>8. heap'[d] \in [1 .. r.arr.capacity -> Value \cup {UNKNOWN}]
  <2>1. ASSUME NEW i \in n+1 .. n+Len(src) PROVE src[i-n] \in Value
    <3>1. i - n \in 1 .. Len(src)
      BY <1>1, <1>2
    <3>. QED
      BY <3>1
  <2>. QED
    BY <1>1, <1>3, <1>7, <2>1
<1>9. Fits(heap', arr') /\ arr'.length = n + Len(src) /\ arr'.data = d
  BY <1>1, <1>2, <1>3, <1>5, <1>6, <1>8 DEF Fits
<1>10. Elems(heap', arr') = Elems(r.heap, r.arr) \o src
  <2>. DEFINE old == Elems(r.heap, r.arr)
              new == Elems(heap', arr')
  <2>1. /\ old \in Seq(Value \cup {UNKNOWN}) /\ Len(old) = n
        /\ \A i \in 1 .. n : old[i] = r.heap[d][i]
    BY ElemsAre
  <2>2. /\ new \in Seq(Value \cup {UNKNOWN}) /\ Len(new) = n + Len(src)
        /\ \A i \in 1 .. n + Len(src) : new[i] = heap'[d][i]
    BY <1>9, ElemsAre
  <2>. HIDE DEF old, new
  <2>3. \A i \in 1 .. n : heap'[d][i] = r.heap[d][i]
    BY <1>1, <1>2, <1>3, <1>7
  <2>4. \A i \in n+1 .. n+Len(src) : heap'[d][i] = src[i-n]
    BY <1>1, <1>2, <1>3, <1>7
  <2>5. \A i \in 1 .. n + Len(src) :
           new[i] = IF i <= n THEN old[i] ELSE src[i-n]
    BY <1>1, <1>2, <2>1, <2>2, <2>3, <2>4
  <2>6. new = old \o src
    <3>. DEFINE S == Value \cup {UNKNOWN}
    <3>1. src \in Seq(S) /\ old \in Seq(S) /\ new \in Seq(S)
      BY <2>1, <2>2
    <3>2. Len(new) = Len(old) + Len(src)
      BY <2>1, <2>2
    <3>3. \A i \in 1 .. Len(old) + Len(src) :
             new[i] = IF i <= Len(old) THEN old[i] ELSE src[i - Len(old)]
      BY <2>1, <2>5
    <3>. HIDE DEF S
    <3>. QED
      BY <3>1, <3>2, <3>3, ConcatIs
  <2>. QED
    BY <2>6 DEF old, new
<1>. QED
  BY <1>9, <1>10


-------------------------------------------------------------------------------
(* The steps. *)

\* An array starts empty, without a block.
LEMMA InitInv == Init => Inv
  BY ArrayAssumption DEF Init, Inv, Fits, Pending, Empty, IDLE

\* Growing to a capacity that holds src and storing it, or being refused.
LEMMA GrowFits ==
    ASSUME Inv, NEW new_cap \in 0 .. WRAP-1, NEW src \in Seq(Value), src # <<>>,
           arr.length + Len(src) <= new_cap, GrowAndStore(new_cap, src)
    PROVE  /\ Fits(heap', arr')
           /\ \/ Elems(heap', arr') = Elems(heap, arr)
              \/ Elems(heap', arr') = Elems(heap, arr) \o src
<1>1. PICK r \in Reserved(new_cap) :
         IF r.ok THEN Store(r, src) ELSE heap' = r.heap /\ arr' = r.arr
  BY DEF GrowAndStore
<1>2. /\ Fits(r.heap, r.arr) /\ r.arr.length = arr.length
      /\ Elems(r.heap, r.arr) = Elems(heap, arr)
      /\ r.ok => r.arr.capacity >= new_cap
  BY ReservedFits DEF Inv
<1>3. CASE r.ok
  <2>1. r.arr.length \in Nat /\ r.arr.capacity \in Nat /\ Len(src) \in Nat
    BY <1>2 DEF Fits
  <2>2. r.arr.length + Len(src) <= r.arr.capacity
    BY <1>2, <1>3, <2>1
  <2>. QED
    BY <1>1, <1>2, <1>3, <2>2, StoreFits
<1>4. CASE ~r.ok
  BY <1>1, <1>2, <1>4
<1>. QED
  BY <1>3, <1>4

\* What the other lemmas need of the current state.
LEMMA Facts ==
    ASSUME Inv
    PROVE  /\ arr.length \in Nat /\ arr.capacity \in Nat
           /\ arr.length <= arr.capacity /\ 2 * arr.capacity < WRAP
           /\ WRAP \in Nat /\ FIRST \in 2 .. WRAP-1
  BY CapacityDoubles, ArrayAssumption DEF Inv, Fits

\* Below the wrap nothing is taken away.
LEMMA Below == ASSUME NEW n \in Nat, NEW w \in Nat \ {0}, n < w PROVE n % w = n
  OBVIOUS

\* One wrap takes WRAP away.
LEMMA Above == ASSUME NEW n \in Nat, NEW w \in Nat \ {0}, n >= w, n < 2 * w
               PROVE  n % w = n - w
  OBVIOUS

\* A capacity below half of the wrap is doubled.
LEMMA DoubledExact ==
    ASSUME NEW c \in Nat, 2 * c < WRAP PROVE Doubled(c) = 2 * c
<1>1. c * 2 \in Nat /\ c * 2 = 2 * c /\ WRAP \in Nat \ {0}
  BY ArrayAssumption
<1>. QED
  BY <1>1, Below DEF Doubled

\* A push into a full array asks for room for one more, at least.
LEMMA NextCapacity ==
    ASSUME Inv, arr.length >= arr.capacity
    PROVE  LET new_cap == IF arr.capacity = 0 THEN FIRST ELSE Doubled(arr.capacity)
           IN  new_cap \in 0 .. WRAP-1 /\ arr.length + 1 <= new_cap
<1>1. CASE arr.capacity = 0
  BY <1>1, Facts
<1>2. CASE arr.capacity # 0
  <2>1. 2 * arr.capacity \in 0 .. WRAP-1 /\ WRAP \in Nat
    BY Facts
  <2>2. Doubled(arr.capacity) = 2 * arr.capacity
    BY Facts, DoubledExact
  <2>. QED
    BY <1>2, <2>1, <2>2, Facts
<1>. QED
  BY <1>1, <1>2

\* Storing where there is room already.
LEMMA StoreHere ==
    ASSUME Inv, NEW src \in Seq(Value), src # <<>>,
           Store([heap |-> heap, arr |-> arr], src),
           arr.length + Len(src) <= arr.capacity
    PROVE  /\ Fits(heap', arr')
           /\ Elems(heap', arr') = Elems(heap, arr) \o src
<1>. DEFINE r == [heap |-> heap, arr |-> arr]
<1>1. r.heap = heap /\ r.arr = arr
  OBVIOUS
<1>2. Fits(r.heap, r.arr) /\ r.arr.length + Len(src) <= r.arr.capacity
  BY <1>1 DEF Inv
<1>3. Store(r, src)
  OBVIOUS
<1>. HIDE DEF r
<1>. QED
  BY <1>1, <1>2, <1>3, StoreFits

\* A push appends its element, or the pool refuses and nothing changes.
LEMMA PushInv ==
    ASSUME Inv, NEW v \in Value, Push(v)
    PROVE  /\ Inv'
           /\ \/ Elems(heap', arr') = Elems(heap, arr)
              \/ Elems(heap', arr') = Elems(heap, arr) \o <<v>>
<1>. DEFINE new_cap == IF arr.capacity = 0 THEN FIRST ELSE Doubled(arr.capacity)
            src == <<v>>
<1>1. src \in Seq(Value) /\ Len(src) = 1 /\ src # <<>>
  OBVIOUS
<1>2. CASE arr.length < arr.capacity
  <2>1. Store([heap |-> heap, arr |-> arr], src)
    BY <1>2 DEF Push
  <2>2. arr.length + Len(src) <= arr.capacity
    BY <1>1, <1>2, Facts
  <2>. HIDE DEF src
  <2>3. Fits(heap', arr') /\ Elems(heap', arr') = Elems(heap, arr) \o src
    BY <1>1, <2>1, <2>2, StoreHere
  <2>. QED
    BY <2>3 DEF Inv, Pending, Push, src
<1>3. CASE ~(arr.length < arr.capacity)
  <2>1. GrowAndStore(new_cap, src)
    BY <1>3 DEF Push
  <2>2. new_cap \in 0 .. WRAP-1 /\ arr.length + Len(src) <= new_cap
    <3>1. arr.length >= arr.capacity
      BY <1>3, Facts
    <3>. QED
      BY <1>1, <3>1, NextCapacity
  <2>. HIDE DEF new_cap, src
  <2>3. /\ Fits(heap', arr')
        /\ \/ Elems(heap', arr') = Elems(heap, arr)
           \/ Elems(heap', arr') = Elems(heap, arr) \o src
    BY <1>1, <2>1, <2>2, GrowFits
  <2>. QED
    BY <2>3 DEF Inv, Pending, Push, src
<1>. QED
  BY <1>2, <1>3

\* A reserve, granted or refused, changes no element.
LEMMA ReserveInv ==
    ASSUME Inv, NEW c \in Wanted, Reserve(c)
    PROVE  Inv' /\ Elems(heap', arr') = Elems(heap, arr)
<1>1. c \in 0 .. WRAP-1
  BY ArrayAssumption
<1>2. Fits(heap', arr') /\ Elems(heap', arr') = Elems(heap, arr)
  BY <1>1, ReservedFits DEF Reserve, Inv
<1>. QED
  BY <1>2 DEF Inv, Pending, Reserve

\* A sum that does not come out smaller than the length did not wrap.
LEMMA SumExact ==
    ASSUME Inv, NEW src \in Seq(Value), Len(src) < WRAP, ~Wraps(src)
    PROVE  arr.length + Len(src) < WRAP /\ Required(src) = arr.length + Len(src)
<1>. DEFINE sum == arr.length + Len(src)
<1>1. arr.length \in Nat /\ Len(src) \in Nat /\ WRAP \in Nat \ {0} /\ arr.length < WRAP
  BY Facts
<1>2. sum \in Nat /\ sum < 2 * WRAP
  BY <1>1
<1>3. ASSUME sum >= WRAP PROVE FALSE
  <2>1. sum % WRAP = sum - WRAP
    BY <1>1, <1>2, <1>3, Above
  <2>. QED
    BY <1>1, <2>1 DEF Wraps
<1>4. sum < WRAP
  BY <1>1, <1>2, <1>3
<1>. QED
  BY <1>1, <1>2, <1>4, Below DEF Required

\* An append that need not grow is done at once; one that has to, enters its
\* loop with a sum that did not wrap.
LEMMA AppendBulkInv ==
    ASSUME Inv, NEW src \in Source, AppendBulk(src)
    PROVE  /\ Inv'
           /\ \/ UNCHANGED <<heap, arr>>
              \/ Elems(heap', arr') = Elems(heap, arr) \o src
<1>1. src \in Seq(Value) /\ Len(src) < WRAP
  BY ArrayAssumption
<1>2. CASE src = <<>> \/ Wraps(src)
  BY <1>2 DEF AppendBulk, vars, Inv, Pending
<1>3. CASE src # <<>> /\ ~Wraps(src) /\ Required(src) > arr.capacity
  <2>1. /\ call' = [src |-> src, new_cap |-> FromFirst(arr.capacity)]
        /\ heap' = heap /\ arr' = arr
    BY <1>3 DEF AppendBulk
  <2>2. FromFirst(arr.capacity) \in 0 .. WRAP-1
    BY Facts DEF FromFirst
  <2>3. arr.length + Len(src) < WRAP /\ arr.length + Len(src) > arr.capacity
    BY <1>1, <1>3, SumExact
  <2>. QED
    BY <1>1, <2>1, <2>2, <2>3 DEF Inv, Pending
<1>4. CASE src # <<>> /\ ~Wraps(src) /\ ~(Required(src) > arr.capacity)
  <2>1. /\ Store([heap |-> heap, arr |-> arr], src)
        /\ call' = call /\ call = IDLE
    BY <1>4 DEF AppendBulk
  <2>2. arr.length + Len(src) <= arr.capacity
    BY <1>1, <1>4, SumExact, Facts
  <2>3. Fits(heap', arr') /\ Elems(heap', arr') = Elems(heap, arr) \o src
    BY <1>1, <1>4, <2>1, <2>2, StoreHere
  <2>. QED
    BY <2>1, <2>3 DEF Inv, Pending
<1>. QED
  BY <1>2, <1>3, <1>4

\* The doubling in the loop may wrap, but stays a size_t.
LEMMA DoubleInv == ASSUME Inv, Double PROVE Inv'
<1>1. Doubled(call.new_cap) \in 0 .. WRAP-1
  BY ArrayAssumption DEF Doubled, Inv, Pending
<1>2. /\ call' = [call EXCEPT !.new_cap = Doubled(call.new_cap)]
      /\ heap' = heap /\ arr' = arr /\ call # IDLE
  BY DEF Double
<1>. QED
  BY <1>1, <1>2 DEF Inv, Pending

\* The capacity the loop ended with holds what was asked for.
LEMMA AppendGrownInv ==
    ASSUME Inv, AppendGrown
    PROVE  /\ Inv' /\ call.src \in Source
           /\ \/ Elems(heap', arr') = Elems(heap, arr)
              \/ Elems(heap', arr') = Elems(heap, arr) \o call.src
<1>1. /\ call # IDLE /\ call' = IDLE /\ call.new_cap >= Required(call.src)
      /\ GrowAndStore(call.new_cap, call.src)
  BY DEF AppendGrown
<1>2. /\ call.src \in Seq(Value) /\ call.src \in Source /\ call.new_cap \in 0 .. WRAP-1
      /\ arr.length + Len(call.src) < WRAP
      /\ arr.length + Len(call.src) > arr.capacity
  BY <1>1 DEF Inv, Pending
<1>3. call.src # <<>> /\ Len(call.src) \in Nat
  BY <1>2, Facts
<1>4. Required(call.src) = arr.length + Len(call.src)
  <2>. DEFINE sum == arr.length + Len(call.src)
  <2>1. sum \in Nat /\ sum < WRAP /\ WRAP \in Nat \ {0}
    BY <1>2, <1>3, Facts
  <2>2. sum % WRAP = sum
    BY <2>1, Below
  <2>. QED
    BY <2>2 DEF Required
<1>5. /\ Fits(heap', arr')
      /\ \/ Elems(heap', arr') = Elems(heap, arr)
         \/ Elems(heap', arr') = Elems(heap, arr) \o call.src
  BY <1>1, <1>2, <1>3, <1>4, GrowFits
<1>. QED
  BY <1>1, <1>2, <1>5, ArrayAssumption DEF Inv, Pending, IDLE

\* Clear keeps the block and its capacity.
LEMMA ClearInv == ASSUME Inv, Clear PROVE Inv'
<1>1. /\ arr' = [arr EXCEPT !.length = 0] /\ heap' = heap
      /\ call' = call /\ call = IDLE
  BY DEF Clear
<1>2. Fits(heap', arr')
  BY <1>1 DEF Inv, Fits
<1>. QED
  BY <1>1, <1>2 DEF Inv, Pending

\* Destroy gives the block back and keeps no capacity.
LEMMA DestroyInv == ASSUME Inv, Destroy PROVE Inv'
<1>1. /\ heap' = [b \in DOMAIN heap \ {arr.data} |-> heap[b]]
      /\ arr' = Empty /\ call' = call /\ call = IDLE
  BY DEF Destroy, Destroyed
<1>2. DOMAIN heap' = {}
  BY <1>1 DEF Inv, Fits
<1>3. Fits(heap', arr')
  BY <1>1, <1>2, ArrayAssumption DEF Fits, Empty
<1>. QED
  BY <1>1, <1>3 DEF Inv, Pending

\* Every step preserves the invariant.
LEMMA NextInv == Inv /\ [Next]_vars => Inv'
<1>. SUFFICES ASSUME Inv, [Next]_vars PROVE Inv'
  OBVIOUS
<1>1. CASE UNCHANGED vars
  BY <1>1 DEF vars, Inv, Pending
<1>2. ASSUME NEW v \in Value, Push(v) PROVE Inv'
  BY <1>2, PushInv
<1>3. ASSUME NEW c \in Wanted, Reserve(c) PROVE Inv'
  BY <1>3, ReserveInv
<1>4. ASSUME NEW src \in Source, AppendBulk(src) PROVE Inv'
  BY <1>4, AppendBulkInv
<1>. QED
  BY <1>1, <1>2, <1>3, <1>4, DoubleInv, AppendGrownInv, ClearInv, DestroyInv
     DEF Next

\* The invariant implies the properties.
LEMMA InvSafe == Inv => StoresInBlock /\ BlockOwned
<1>. SUFFICES ASSUME Inv PROVE StoresInBlock /\ BlockOwned
  OBVIOUS
<1>1. arr.length \in Nat /\ arr.capacity \in Nat /\ arr.length <= arr.capacity
  BY Facts
<1>2. Room = arr.capacity
  <2>1. CASE arr.data = NULL
    BY <2>1 DEF Inv, Fits, Room
  <2>2. CASE arr.data # NULL
    <3>1. heap[arr.data] \in [1 .. arr.capacity -> Value \cup {UNKNOWN}]
      BY <2>2 DEF Inv, Fits
    <3>. QED
      BY <1>1, <2>2, <3>1 DEF Room
  <2>. QED
    BY <2>1, <2>2
<1>. QED
  BY <1>1, <1>2 DEF StoresInBlock, BlockOwned, Inv, Fits

\* The invariant implies the types.
LEMMA Typed == Inv /\ grown \in Nat => TypeOK
<1>. SUFFICES ASSUME Inv, grown \in Nat PROVE TypeOK
  OBVIOUS
<1>1. DOMAIN heap = {arr.data} \ {NULL} /\ arr.data \in Block \cup {NULL}
  BY DEF Inv, Fits
<1>2. \A b \in DOMAIN heap : heap[b] \in Seq(Value \cup {UNKNOWN})
  <2>1. arr.capacity \in Nat
    BY Facts
  <2>2. arr.data # NULL =>
           heap[arr.data] \in [1 .. arr.capacity -> Value \cup {UNKNOWN}]
    BY DEF Inv, Fits
  <2>. QED
    BY <1>1, <2>1, <2>2
<1>3. arr \in [data : DOMAIN heap \cup {NULL}, length : 0 .. WRAP-1,
               capacity : 0 .. WRAP-1]
  <2>1. arr.length \in 0 .. WRAP-1 /\ arr.capacity \in 0 .. WRAP-1
    BY Facts
  <2>2. arr \in [data : Block \cup {NULL}, length : Nat, capacity : Nat]
    BY DEF Inv, Fits
  <2>. QED
    BY <1>1, <2>1, <2>2
<1>4. call \in [src : Source \cup {<<>>}, new_cap : 0 .. WRAP-1]
  <2>1. call \in [src : Seq(Value), new_cap : 0 .. WRAP-1]
    BY DEF Inv, Pending
  <2>2. call.src \in Source \cup {<<>>}
    BY DEF Inv, Pending, IDLE
  <2>. QED
    BY <2>1, <2>2
<1>. QED
  BY <1>1, <1>2, <1>3, <1>4 DEF TypeOK

-------------------------------------------------------------------------------
(* The theorems. *)

\* In every run Inv holds: besides the two properties below, that a capacity
\* never exceeds in bytes what the pool can give, so that doubling it in a push
\* cannot wrap, and that an append_bulk in its loop asks for a true sum.
THEOREM Safety == Spec => []Inv
<1>. QED
  BY InitInv, NextInv, PTL DEF Spec

\* data is NULL or a block of the pool, the numbers are of type size_t, and the
\* elements are those stored or those the block came with.
THEOREM TypeCorrect == Spec => []TypeOK
<1>1. grown \in Nat /\ [Next]_vars => (grown \in Nat)'
  <2>. SUFFICES ASSUME grown \in Nat, [Next]_vars PROVE grown' \in Nat
    OBVIOUS
  <2>1. CASE UNCHANGED vars
    BY <2>1 DEF vars
  <2>2. ASSUME NEW c, NEW src, GrowAndStore(c, src) PROVE grown' \in Nat
    BY <2>2 DEF GrowAndStore
  <2>3. ASSUME NEW v \in Value, Push(v) PROVE grown' \in Nat
    BY <2>2, <2>3, Zenon DEF Push
  <2>4. CASE AppendGrown
    BY <2>2, <2>4 DEF AppendGrown
  <2>5. CASE Double \/ Clear \/ Destroy
    BY <2>5 DEF Double, Clear, Destroy
  <2>6. ASSUME NEW c \in Wanted, Reserve(c) PROVE grown' \in Nat
    BY <2>6 DEF Reserve
  <2>7. ASSUME NEW src \in Source, AppendBulk(src) PROVE grown' \in Nat
    <3>1. grown' = grown
      BY <2>7, Zenon DEF AppendBulk, vars
    <3>. QED
      BY <3>1
  <2>. QED
    BY <2>1, <2>3, <2>4, <2>5, <2>6, <2>7 DEF Next
<1>2. Init => grown \in Nat
  BY DEF Init
<1>3. Inv /\ grown \in Nat => TypeOK
  BY Typed
<1>. QED
  BY <1>1, <1>2, <1>3, Safety, PTL DEF Spec

\* push, reserve and append_bulk never store behind the end of the block:
\* length, capacity and the room of the block stay in order, after refusals
\* and sizes that wrap too.
THEOREM StaysInBlock == Spec => []StoresInBlock
<1>. QED
  BY Safety, InvSafe, PTL

\* The block of data is the only one the array ever holds: reserve, whether or
\* not the block moves, and destroy leave none behind.
THEOREM OwnsItsBlock == Spec => []BlockOwned
<1>. QED
  BY Safety, InvSafe, PTL

-------------------------------------------------------------------------------
(* How often the array grows. *)

\* The recursion that Doublings stands for.
LEMMA DoublingsAre ==
    /\ Doublings[0] = 1
    /\ \A n \in Nat : Doublings[n] \in Nat \ {0} /\ Doublings[n+1] = 2 * Doublings[n]
<1>. DEFINE step == [x \in Int |-> 2 * x]
<1>. HIDE DEF step
<1>0. \E f : f[0] = 1 /\ \A n \in Nat : f[n+1] = step[f[n]]
  <2>. DEFINE Solves(f, a, s) == f[0] = a /\ \A n \in Nat : f[n+1] = s[f[n]]
  <2>1. \A a, s : \E f : Solves(f, a, s)
    BY NatRecursion, Zenon
  <2>. HIDE DEF Solves
  <2>2. \E f : Solves(f, 1, step)
    BY <2>1
  <2>. QED
    BY <2>2 DEF Solves
<1>1. PICK f : f[0] = 1 /\ \A n \in Nat : f[n+1] = step[f[n]]
  BY <1>0
<1>. DEFINE C == {n \in Nat : f[n] \in Int}
<1>2. 0 \in C /\ \A n \in Nat : n \in C => n+1 \in C
  <2>1. \A n \in Int : step[n] \in Int
    BY DEF step
  <2>. QED
    BY <1>1, <2>1
<1>. HIDE DEF C
<1>3. \A n \in Nat : f[n] \in Int
  BY <1>2, NatSet DEF C
<1>4. \A n \in Nat : f[n+1] = 2 * f[n]
  BY <1>1, <1>3 DEF step
<1>. DEFINE g == [n \in Nat |-> f[n]]
<1>5. \A n \in Nat : g[n] = IF n = 0 THEN 1 ELSE 2 * g[n-1]
  <2>. SUFFICES ASSUME NEW n \in Nat, n # 0 PROVE f[n] = 2 * f[n-1]
    BY <1>1
  <2>1. n-1 \in Nat /\ (n-1)+1 = n
    OBVIOUS
  <2>. QED
    BY <1>4, <2>1
<1>6. g = [n \in Nat |-> IF n = 0 THEN 1 ELSE 2 * g[n-1]]
  BY <1>5
<1>7. Doublings = [n \in Nat |-> IF n = 0 THEN 1 ELSE 2 * Doublings[n-1]]
  BY <1>6 DEF Doublings
<1>8. Doublings[0] = 1 /\ \A n \in Nat : Doublings[n+1] = 2 * Doublings[n]
  BY <1>7
<1>. DEFINE D == {n \in Nat : Doublings[n] \in Nat \ {0}}
<1>9. 0 \in D /\ \A n \in Nat : n \in D => n+1 \in D
  BY <1>8
<1>. HIDE DEF D
<1>10. Nat \subseteq D
  BY <1>9, NatSet
<1>. QED
  BY <1>8, <1>10 DEF D

\* The least capacity the slow path asks for.
LeastCap == IF arr.capacity = 0 THEN FIRST ELSE 2 * arr.capacity

\* An append_bulk in its loop that passed through a doubling that wrapped asks
\* for more than that, so it does not end below.
Rising == call # IDLE =>
    \/ call.new_cap = FromFirst(arr.capacity)
    \/ call.new_cap >= LeastCap
    \/ arr.length + Len(call.src) > LeastCap

GrowthInv == Inv /\ Rising /\ grown \in Nat /\ AmortizedGrowth

\* A growth that succeeds leaves the capacity asked for, at least.
LEMMA GrowthGrows ==
    ASSUME Inv, NEW new_cap \in 0 .. WRAP-1, NEW src, GrowAndStore(new_cap, src)
    PROVE  /\ arr'.capacity >= arr.capacity
           /\ \/ grown' = grown
              \/ grown' = grown + 1 /\ arr'.capacity >= new_cap
<1>1. PICK r \in Reserved(new_cap) :
         /\ IF r.ok THEN Store(r, src) ELSE heap' = r.heap /\ arr' = r.arr
         /\ grown' = IF r.ok THEN grown + 1 ELSE grown
  BY DEF GrowAndStore
<1>2. /\ Fits(r.heap, r.arr) /\ r.arr.capacity >= arr.capacity
      /\ r.ok => r.arr.capacity >= new_cap
  BY ReservedFits DEF Inv
<1>3. CASE r.ok
  <2>1. arr'.capacity = r.arr.capacity
    BY <1>1, <1>2, <1>3 DEF Store, Fits
  <2>. QED
    BY <1>1, <1>2, <1>3, <2>1
<1>4. CASE ~r.ok
  BY <1>1, <1>2, <1>4
<1>. QED
  BY <1>3, <1>4

\* One more growth, and twice the capacity at least.
LEMMA AmortizedStep ==
    ASSUME GrowthInv, NEW new_cap \in 0 .. WRAP-1, NEW src,
           GrowAndStore(new_cap, src), new_cap >= LeastCap, Inv'
    PROVE  grown' \in Nat /\ AmortizedGrowth'
<1>1. /\ arr.capacity \in Nat /\ arr'.capacity \in Nat /\ FIRST \in Nat /\ FIRST >= 2
      /\ LeastCap \in Nat /\ LeastCap >= 2 /\ LeastCap >= 2 * arr.capacity
  BY Facts DEF GrowthInv, Inv, Fits, LeastCap
<1>2. arr'.capacity >= arr.capacity
  BY GrowthGrows DEF GrowthInv
<1>3. CASE grown' = grown
  <2>1. grown' > 0 => Doublings[grown'] <= arr.capacity /\ Doublings[grown'] \in Nat
    BY <1>3, DoublingsAre DEF GrowthInv, AmortizedGrowth
  <2>. QED
    BY <1>1, <1>2, <1>3, <2>1 DEF GrowthInv, AmortizedGrowth
<1>4. CASE grown' = grown + 1 /\ arr'.capacity >= new_cap
  <2>1. arr'.capacity >= LeastCap
    BY <1>1, <1>4
  <2>2. grown \in Nat /\ Doublings[grown'] = 2 * Doublings[grown] /\ Doublings[grown] \in Nat
    BY <1>4, DoublingsAre DEF GrowthInv
  <2>3. Doublings[grown'] <= LeastCap
    <3>1. CASE grown = 0
      BY <1>1, <2>2, <3>1, DoublingsAre
    <3>2. CASE grown > 0
      <4>1. Doublings[grown] <= arr.capacity
        BY <3>2 DEF GrowthInv, AmortizedGrowth
      <4>. QED
        BY <1>1, <2>2, <4>1
    <3>. QED
      BY <2>2, <3>1, <3>2
  <2>4. Doublings[grown'] <= arr'.capacity
    <3>1. Doublings[grown'] \in Nat
      BY <2>2
    <3>. QED
      BY <1>1, <2>1, <2>3, <3>1
  <2>. QED
    BY <1>4, <2>2, <2>4 DEF AmortizedGrowth
<1>5. \/ grown' = grown
      \/ grown' = grown + 1 /\ arr'.capacity >= new_cap
  BY GrowthGrows DEF GrowthInv
<1>. QED
  BY <1>3, <1>4, <1>5

\* A step that leaves the count of growths and takes no capacity away.
LEMMA AmortizedFrame ==
    ASSUME GrowthInv, Inv', grown' = grown, arr'.capacity >= arr.capacity
    PROVE  grown' \in Nat /\ AmortizedGrowth'
<1>1. arr.capacity \in Nat /\ arr'.capacity \in Nat /\ grown \in Nat
  BY DEF GrowthInv, Inv, Fits
<1>2. Doublings[grown] \in Nat
  BY <1>1, DoublingsAre
<1>. QED
  BY <1>1, <1>2 DEF GrowthInv, AmortizedGrowth

\* Every step keeps the capacity above the doublings.
LEMMA NextGrowth == GrowthInv /\ [Next]_vars => GrowthInv'
<1>. SUFFICES ASSUME GrowthInv, [Next]_vars PROVE GrowthInv'
  OBVIOUS
<1>i. Inv /\ Inv'
  BY NextInv DEF GrowthInv
<1>f. /\ arr.length \in Nat /\ arr.capacity \in Nat /\ 2 * arr.capacity < WRAP
      /\ WRAP \in Nat /\ FIRST \in 2 .. WRAP-1
  BY <1>i, Facts
<1>1. CASE UNCHANGED vars
  BY <1>1, <1>i DEF vars, GrowthInv, Rising, AmortizedGrowth, LeastCap
<1>2. ASSUME NEW v \in Value, Push(v) PROVE GrowthInv'
  <2>1. call' = IDLE
    BY <1>2 DEF Push
  <2>2. CASE arr.length < arr.capacity
    <3>1. arr'.capacity = arr.capacity /\ grown' = grown
      BY <1>2, <1>i, <2>2 DEF Push, Store, Inv, Fits
    <3>. QED
      BY <1>f, <1>i, <2>1, <3>1, AmortizedFrame DEF GrowthInv, Rising
  <2>3. CASE ~(arr.length < arr.capacity)
    <3>. DEFINE new_cap == IF arr.capacity = 0 THEN FIRST ELSE Doubled(arr.capacity)
    <3>1. GrowAndStore(new_cap, <<v>>)
      BY <1>2, <2>3 DEF Push
    <3>2. new_cap = LeastCap /\ new_cap \in 0 .. WRAP-1 /\ new_cap \in Int
      BY <1>f, DoubledExact DEF LeastCap
    <3>. HIDE DEF new_cap
    <3>3. grown' \in Nat /\ AmortizedGrowth'
      <4>1. new_cap >= LeastCap
        BY <3>2
      <4>. QED
        BY <1>i, <3>1, <3>2, <4>1, AmortizedStep
    <3>. QED
      BY <1>i, <2>1, <3>3 DEF GrowthInv, Rising
  <2>. QED
    BY <2>2, <2>3
<1>3. ASSUME NEW c \in Wanted, Reserve(c) PROVE GrowthInv'
  <2>1. c \in 0 .. WRAP-1 /\ call' = IDLE /\ grown' = grown
    BY <1>3, ArrayAssumption DEF Reserve
  <2>2. arr'.capacity >= arr.capacity
    BY <1>3, <1>i, <2>1, ReservedFits DEF Reserve, Inv
  <2>. QED
    BY <1>i, <2>1, <2>2, AmortizedFrame DEF GrowthInv, Rising
<1>4. ASSUME NEW src \in Source, AppendBulk(src) PROVE GrowthInv'
  <2>1. CASE src = <<>> \/ Wraps(src)
    BY <1>1, <1>4, <2>1 DEF AppendBulk
  <2>2. CASE src # <<>> /\ ~Wraps(src) /\ Required(src) > arr.capacity
    <3>1. /\ call' = [src |-> src, new_cap |-> FromFirst(arr.capacity)]
          /\ arr' = arr /\ grown' = grown
      BY <1>4, <2>2 DEF AppendBulk
    <3>2. Rising'
      BY <3>1 DEF Rising, FromFirst
    <3>. QED
      BY <1>f, <1>i, <3>1, <3>2, AmortizedFrame DEF GrowthInv
  <2>3. CASE src # <<>> /\ ~Wraps(src) /\ ~(Required(src) > arr.capacity)
    <3>1. /\ Store([heap |-> heap, arr |-> arr], src)
          /\ call' = IDLE /\ grown' = grown
      BY <1>4, <2>3 DEF AppendBulk
    <3>2. arr'.capacity = arr.capacity
      BY <1>i, <3>1 DEF Store, Inv, Fits
    <3>. QED
      BY <1>f, <1>i, <3>1, <3>2, AmortizedFrame DEF GrowthInv, Rising
  <2>. QED
    BY <2>1, <2>2, <2>3
<1>5. CASE Double \/ AppendGrown
  <2>. DEFINE need == arr.length + Len(call.src)
  <2>1. /\ call # IDLE /\ call.src \in Seq(Value) /\ call.new_cap \in 0 .. WRAP-1
        /\ need < WRAP /\ need > arr.capacity /\ Len(call.src) \in Nat
    BY <1>5, <1>i DEF Double, AppendGrown, Inv, Pending
  <2>2. Required(call.src) = need
    <3>1. need \in Nat /\ WRAP \in Nat \ {0}
      BY <1>f, <2>1
    <3>2. need % WRAP = need
      BY <2>1, <3>1, Below
    <3>. QED
      BY <3>2 DEF Required
  <2>3. \/ call.new_cap = FromFirst(arr.capacity)
        \/ call.new_cap >= LeastCap
        \/ need > LeastCap
    BY <2>1 DEF GrowthInv, Rising
  <2>4. /\ need \in Nat /\ call.new_cap \in Nat /\ LeastCap \in Nat
        /\ LeastCap = IF arr.capacity = 0 THEN FIRST ELSE 2 * arr.capacity
        /\ FromFirst(arr.capacity) = IF arr.capacity = 0 THEN FIRST ELSE arr.capacity
    BY <1>f, <2>1 DEF LeastCap, FromFirst
  <2>. HIDE DEF need
  <2>5. CASE Double
    <3>1. /\ call' = [call EXCEPT !.new_cap = Doubled(call.new_cap)]
          /\ arr' = arr /\ grown' = grown /\ call.new_cap < need
      BY <2>2, <2>5 DEF Double
    <3>2. Doubled(call.new_cap) >= LeastCap \/ need > LeastCap
      <4>1. CASE arr.capacity # 0 /\ call.new_cap = FromFirst(arr.capacity)
        <5>1. Doubled(arr.capacity) = 2 * arr.capacity
          BY <1>f, DoubledExact
        <5>. QED
          BY <2>4, <4>1, <5>1
      <4>2. CASE arr.capacity = 0 /\ call.new_cap = FromFirst(arr.capacity)
        BY <2>4, <3>1, <4>2
      <4>3. CASE call.new_cap >= LeastCap \/ need > LeastCap
        BY <2>4, <3>1, <4>3
      <4>. QED
        BY <2>3, <4>1, <4>2, <4>3
    <3>3. call'.src = call.src /\ call'.new_cap = Doubled(call.new_cap)
      BY <1>i, <3>1 DEF Inv, Pending
    <3>4. Rising'
      BY <3>1, <3>2, <3>3 DEF Rising, LeastCap, need
    <3>. QED
      BY <1>f, <1>i, <3>1, <3>4, AmortizedFrame DEF GrowthInv
  <2>6. CASE AppendGrown
    <3>1. call.new_cap >= need /\ call' = IDLE /\ GrowAndStore(call.new_cap, call.src)
      BY <2>2, <2>6 DEF AppendGrown
    <3>2. call.new_cap >= LeastCap
      BY <1>f, <2>1, <2>3, <2>4, <3>1 DEF need
    <3>3. grown' \in Nat /\ AmortizedGrowth'
      BY <1>i, <2>1, <3>1, <3>2, AmortizedStep
    <3>. QED
      BY <1>i, <3>1, <3>3 DEF GrowthInv, Rising
  <2>. QED
    BY <1>5, <2>5, <2>6
<1>6. CASE Clear
  <2>1. call' = IDLE /\ grown' = grown /\ arr'.capacity = arr.capacity
    BY <1>6, <1>i DEF Clear, Inv, Fits
  <2>. QED
    BY <1>f, <1>i, <2>1, AmortizedFrame DEF GrowthInv, Rising
<1>7. CASE Destroy
  BY <1>7, <1>i DEF Destroy, GrowthInv, Rising, AmortizedGrowth
<1>. QED
  BY <1>1, <1>2, <1>3, <1>4, <1>5, <1>6, <1>7 DEF Next

\* Each time push or append_bulk grows the array its capacity at least doubles:
\* the slow path is taken a logarithmic number of times.
THEOREM GrowthIsAmortized == Spec => []AmortizedGrowth
<1>1. Init => GrowthInv
  BY InitInv DEF Init, GrowthInv, Rising, AmortizedGrowth
<1>. QED
  BY <1>1, NextGrowth, PTL DEF Spec, GrowthInv

-------------------------------------------------------------------------------
(* The contract. *)

\* A step of the array is a step of the sequence it stands for, or none.
LEMMA StepIsContractStep ==
    Inv /\ [Next]_vars => [Contract!Next]_(Elems(heap, arr))
<1>. SUFFICES ASSUME Inv, [Next]_vars
              PROVE  Contract!Next \/ Elems(heap', arr') = Elems(heap, arr)
  OBVIOUS
<1>1. CASE UNCHANGED vars
  BY <1>1 DEF vars
<1>2. ASSUME NEW v \in Value, Push(v)
      PROVE  Contract!Next \/ Elems(heap', arr') = Elems(heap, arr)
  <2>1. Elems(heap, arr) \in Seq(Value \cup {UNKNOWN})
    BY ElemsAre DEF Inv
  <2>2. Append(Elems(heap, arr), v) = Elems(heap, arr) \o <<v>>
    BY <2>1, AppendIsConcat
  <2>3. Elems(heap', arr') = Append(Elems(heap, arr), v)
           \/ Elems(heap', arr') = Elems(heap, arr)
    BY <1>2, <2>2, PushInv
  <2>. QED
    BY <2>3 DEF Contract!Next, Contract!Push, Elems
<1>3. ASSUME NEW c \in Wanted, Reserve(c)
      PROVE  Elems(heap', arr') = Elems(heap, arr)
  BY <1>3, ReserveInv
<1>4. ASSUME NEW src \in Source, AppendBulk(src)
      PROVE  Contract!Next \/ Elems(heap', arr') = Elems(heap, arr)
  <2>1. \/ Elems(heap', arr') = Elems(heap, arr)
        \/ Elems(heap', arr') = Elems(heap, arr) \o src
    BY <1>4, AppendBulkInv
  <2>. QED
    BY <2>1 DEF Contract!Next, Contract!AppendBulk, Elems
<1>5. ASSUME AppendGrown
      PROVE  Contract!Next \/ Elems(heap', arr') = Elems(heap, arr)
  <2>1. /\ call.src \in Source
        /\ \/ Elems(heap', arr') = Elems(heap, arr)
           \/ Elems(heap', arr') = Elems(heap, arr) \o call.src
    BY <1>5, AppendGrownInv
  <2>. QED
    BY <2>1 DEF Contract!Next, Contract!AppendBulk, Elems
<1>6. CASE Double
  BY <1>6 DEF Double
<1>7. ASSUME Clear \/ Destroy PROVE Contract!Next
  <2>1. Inv' /\ arr'.length = 0
    BY <1>7, ClearInv, DestroyInv DEF Clear, Destroy, Destroyed, Empty, Inv, Fits
  <2>2. Elems(heap', arr') = <<>>
    <3>1. Fits(heap', arr')
      BY <2>1 DEF Inv
    <3>. QED
      BY <2>1, <3>1, ElemsAre
  <2>. QED
    BY <2>2 DEF Contract!Next, Contract!Empty, Elems
<1>. QED
  BY <1>1, <1>2, <1>3, <1>4, <1>5, <1>6, <1>7 DEF Next

\* A typed array is a sequence: moves, refusals and sums that wrap change no
\* element and no place, and an append_bulk whose growth takes many steps
\* happens at once or not at all.
THEOREM ImplementsSequence == Spec => IsSequence
<1>1. Init => Contract!Init
  BY DEF Init, Contract!Init, Empty
<1>2. Inv /\ [Next]_vars => [Contract!Next]_(Elems(heap, arr))
  BY StepIsContractStep
<1>. QED
  BY <1>1, <1>2, Safety, PTL DEF Spec, IsSequence, Contract!Spec, Elems
===============================================================================
