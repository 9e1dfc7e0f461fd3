-------------------------- MODULE ArenaThreadsProofs ---------------------------
(***************************************************************************)
(* A lock of the context around each operation is enough: for any threads, *)
(* any blocks and any size of the cache, no block is handed out twice, and *)
(* none is lost.                                                           *)
(***************************************************************************)
EXTENDS ArenaThreads, FiniteSetTheorems, TLAPS

\* The first n entries of the cache e, the arenas o and the blocks in transit
\* name every mapped block once.
Kept(e, m, o, n, loose) ==
    /\ \A i \in 0 .. n-1 : e[i] \in Block \ loose
    /\ \A i, j \in 0 .. n-1 : e[i] = e[j] => i = j
    /\ \A t \in Thread : /\ o[t] \subseteq Block \ loose
                         /\ \A i \in 0 .. n-1 : e[i] \notin o[t]
    /\ \A t, u \in Thread : t # u => o[t] \cap o[u] = {}
    /\ loose \subseteq Block
    /\ m = {e[i] : i \in 0 .. n-1} \cup (UNION {o[t] : t \in Thread}) \cup loose

\* What holds at each line of a thread while every other thread is idle: the
\* entry that was moved counts for nothing until the count goes down, and the
\* entry that was stored counts for nothing until the count goes up.
At(t) ==
    /\ line[t] \in {"idle", "map_scan", "map_take", "map_move", "map_kernel"} =>
          Kept(entry, mapped, own, count, {})
    /\ line[t] \in {"map_take", "map_move"} => index[t] < count
    /\ line[t] = "map_move" => block[t] = entry[index[t]]
    /\ line[t] \in {"map_load", "map_store"} =>
          count > 0 /\ Kept(entry, mapped, own, count - 1, {block[t]})
    /\ line[t] \in {"release_test", "release_store", "release_load",
                    "release_count", "unmap"} =>
          Kept(entry, mapped, own, count, {block[t]})
    /\ line[t] \in {"release_store", "release_load", "release_count"} =>
          count < CACHE_SIZE
    /\ line[t] \in {"release_load", "release_count"} => entry[count] = block[t]
    /\ line[t] \in {"map_store", "release_count"} => loaded[t] = count

Others(t) == \A u \in Thread \ {t} : line[u] = "idle"

Inv == /\ TypeOK
       /\ \A t \in Thread : line[t] # "idle" => lock = t
       /\ \A t \in Thread : Others(t) => At(t)

-------------------------------------------------------------------------------
(* How the steps move blocks. *)

\* A block is taken from the cache and the last entry put in its place.
LEMMA TakeOut ==
    ASSUME NEW e, NEW m, NEW o, NEW n \in Nat, NEW i \in 0 .. n-1,
           DOMAIN e = 0 .. CACHE_SIZE-1, CACHE_SIZE \in Nat, n <= CACHE_SIZE,
           Kept(e, m, o, n, {})
    PROVE  Kept([e EXCEPT ![i] = e[n-1]], m, o, n - 1, {e[i]})
<1>. DEFINE f == [e EXCEPT ![i] = e[n-1]]
<1>1. \A j \in 0 .. n-2 : f[j] = IF j = i THEN e[n-1] ELSE e[j]
  OBVIOUS
<1>2. \A j, k \in 0 .. n-1 : e[j] = e[k] => j = k
  BY DEF Kept
<1>3. n-1 \in 0 .. n-1 /\ \A j \in 0 .. n-2 : j \in 0 .. n-1 /\ j # n-1
  OBVIOUS
<1>4. \A j \in 0 .. n-2 : \E k \in 0 .. n-1 : k # i /\ f[j] = e[k]
  BY <1>1, <1>3
<1>5. \A j, k \in 0 .. n-2 : f[j] = f[k] => j = k
  BY <1>1, <1>2, <1>3
<1>6. \A k \in 0 .. n-1 : k # i => \E j \in 0 .. n-2 : f[j] = e[k]
  <2>. SUFFICES ASSUME NEW k \in 0 .. n-1, k # i
                PROVE  \E j \in 0 .. n-2 : f[j] = e[k]
    OBVIOUS
  <2>1. CASE k = n-1
    <3>1. i \in 0 .. n-2
      BY <2>1
    <3>. QED
      BY <1>1, <2>1, <3>1
  <2>2. CASE k # n-1
    <3>1. k \in 0 .. n-2
      BY <2>2
    <3>. QED
      BY <1>1, <3>1
  <2>. QED
    BY <2>1, <2>2
<1>. HIDE DEF f
<1>7. {f[j] : j \in 0 .. n-2} \cup {e[i]} = {e[k] : k \in 0 .. n-1}
  BY <1>4, <1>6
<1>8. (n - 1) - 1 = n - 2
  OBVIOUS
<1>9. \A j \in 0 .. n-2 : f[j] \in Block \ {e[i]}
  BY <1>2, <1>4 DEF Kept
<1>10. \A t \in Thread : /\ o[t] \subseteq Block \ {e[i]}
                         /\ \A j \in 0 .. n-2 : f[j] \notin o[t]
  BY <1>4 DEF Kept
<1>11. m = {f[j] : j \in 0 .. n-2} \cup (UNION {o[t] : t \in Thread}) \cup {e[i]}
  BY <1>7 DEF Kept
<1>12. {e[i]} \subseteq Block /\ \A t, u \in Thread : t # u => o[t] \cap o[u] = {}
  BY DEF Kept
<1>. QED
  BY <1>5, <1>8, <1>9, <1>10, <1>11, <1>12 DEF Kept, f

\* A block in transit becomes the memory of an arena.
LEMMA Give ==
    ASSUME NEW e, NEW m, NEW o, NEW n, NEW b, NEW t \in Thread,
           DOMAIN o = Thread, Kept(e, m, o, n, {b})
    PROVE  Kept(e, m, [o EXCEPT ![t] = o[t] \cup {b}], n, {})
  BY DEF Kept

\* A block of an arena is on its way out.
LEMMA TakeBack ==
    ASSUME NEW e, NEW m, NEW o, NEW n, NEW t \in Thread, NEW b \in o[t],
           DOMAIN o = Thread, Kept(e, m, o, n, {})
    PROVE  Kept(e, m, [o EXCEPT ![t] = o[t] \ {b}], n, {b})
  BY DEF Kept

\* The kernel maps a block, and unmaps one.
LEMMA MapNew ==
    ASSUME NEW e, NEW m, NEW o, NEW n, NEW b \in Block \ m, Kept(e, m, o, n, {})
    PROVE  Kept(e, m \cup {b}, o, n, {b})
  BY DEF Kept

\* munmap of the block in transit.
LEMMA UnmapLoose ==
    ASSUME NEW e, NEW m, NEW o, NEW n, NEW b, Kept(e, m, o, n, {b})
    PROVE  Kept(e, m \ {b}, o, n, {})
  BY DEF Kept

\* A write behind the entries that count changes nothing.
LEMMA StoreBehind ==
    ASSUME NEW e, NEW m, NEW o, NEW n \in Nat, NEW b, n < CACHE_SIZE,
           DOMAIN e = 0 .. CACHE_SIZE-1, CACHE_SIZE \in Nat,
           Kept(e, m, o, n, {b})
    PROVE  Kept([e EXCEPT ![n] = b], m, o, n, {b})
<1>. DEFINE f == [e EXCEPT ![n] = b]
<1>1. f[n] = b /\ \A i \in 0 .. n-1 : f[i] = e[i]
  OBVIOUS
<1>. HIDE DEF f
<1>2. {f[i] : i \in 0 .. n-1} = {e[i] : i \in 0 .. n-1}
  BY <1>1
<1>3. Kept(f, m, o, n, {b})
  BY <1>1, <1>2 DEF Kept
<1>. QED
  BY <1>1, <1>3 DEF f

\* Counting the entry written puts the block into the cache.
LEMMA CountIt ==
    ASSUME NEW e, NEW m, NEW o, NEW n \in Nat, NEW b, e[n] = b,
           Kept(e, m, o, n, {b})
    PROVE  Kept(e, m, o, n + 1, {})
<1>1. \A i \in 0 .. n : i = n \/ i \in 0 .. n-1
  OBVIOUS
<1>2. n \in 0 .. n /\ \A i \in 0 .. n-1 : i \in 0 .. n
  OBVIOUS
<1>3. (n + 1) - 1 = n
  OBVIOUS
<1>4. {e[i] : i \in 0 .. n} = {e[i] : i \in 0 .. n-1} \cup {b}
  BY <1>1, <1>2
<1>5. b \in Block
  BY DEF Kept
<1>6. \A i \in 0 .. n : e[i] \in Block
  BY <1>1, <1>5 DEF Kept
<1>7. \A i, j \in 0 .. n : e[i] = e[j] => i = j
  BY <1>1 DEF Kept
<1>8. \A t \in Thread : /\ o[t] \subseteq Block
                        /\ \A i \in 0 .. n : e[i] \notin o[t]
  BY <1>1 DEF Kept
<1>9. m = {e[i] : i \in 0 .. n} \cup UNION {o[t] : t \in Thread}
  BY <1>4 DEF Kept
<1>10. \A t, u \in Thread : t # u => o[t] \cap o[u] = {}
  BY DEF Kept
<1>. QED
  BY <1>3, <1>6, <1>7, <1>8, <1>9, <1>10 DEF Kept

-------------------------------------------------------------------------------
(* The steps. *)

\* The thread that moves is alone in the library.
LEMMA Alone ==
    ASSUME LOCKED, Inv, NEW t \in Thread, line[t] # "idle" \/ lock = NONE
    PROVE  Others(t) /\ At(t)
<1>1. Others(t)
  BY ThreadsAssumption DEF Others, Inv
<1>. QED
  BY <1>1 DEF Inv

\* What a step of one thread has to show.
LEMMA OneMoves ==
    ASSUME Inv, NEW t \in Thread, Others(t), NEW l \in Line,
           line' = [line EXCEPT ![t] = l], l # "idle" => lock' = t,
           TypeOK', At(t)'
    PROVE  Inv'
<1>1. line'[t] = l /\ \A u \in Thread \ {t} : line'[u] = "idle"
  BY DEF Inv, TypeOK, Others
<1>2. \A u \in Thread : line'[u] # "idle" => lock' = u
  BY <1>1
<1>3. ASSUME NEW u \in Thread, Others(u)' PROVE At(u)'
  <2>1. CASE u = t
    BY <2>1
  <2>2. CASE u # t
    <3>1. line'[t] = "idle" /\ line'[u] = "idle"
      BY <1>1, <1>3, <2>2 DEF Others
    <3>. QED
      BY <3>1 DEF At
  <2>. QED
    BY <2>1, <2>2
<1>. QED
  BY <1>2, <1>3 DEF Inv

\* At first nothing is mapped, cached or owned.
LEMMA InitInv == Init => Inv
<1>. SUFFICES ASSUME Init PROVE Inv
  OBVIOUS
<1>1. TypeOK
  BY ThreadsAssumption DEF Init, TypeOK, Line
<1>2. Kept(entry, mapped, own, count, {})
  BY DEF Init, Kept
<1>. QED
  BY <1>1, <1>2 DEF Init, Inv, At

\* A thread that enters an operation found the lock free: nobody is inside.
LEMMA CallCreateInv ==
    ASSUME LOCKED, Inv, NEW t \in Thread, CallCreate(t) PROVE Inv'
<1>1. /\ line[t] = "idle" /\ line' = [line EXCEPT ![t] = "map_scan"]
      /\ lock = NONE /\ lock' = t /\ index' = [index EXCEPT ![t] = 0]
      /\ UNCHANGED <<entry, count, mapped, own, block, loaded>>
  BY DEF CallCreate, Goto, Acquire
<1>2. Others(t) /\ At(t)
  BY <1>1, Alone
<1>3. TypeOK' /\ line'[t] = "map_scan"
  BY <1>1, ThreadsAssumption DEF Inv, TypeOK, Line
<1>4. At(t)'
  BY <1>1, <1>2, <1>3 DEF At
<1>. QED
  BY <1>1, <1>2, <1>3, <1>4, OneMoves DEF Line

\* The loop leaves the cache alone, and its index below the count.
LEMMA MapScanInv ==
    ASSUME LOCKED, Inv, NEW t \in Thread, MapScan(t) PROVE Inv'
<1>1. /\ line[t] = "map_scan"
      /\ UNCHANGED <<entry, count, mapped, own, block, loaded, lock>>
  BY DEF MapScan
<1>2. Others(t) /\ At(t) /\ lock = t
  BY <1>1, Alone DEF Inv
<1>3. Kept(entry, mapped, own, count, {})
  BY <1>1, <1>2 DEF At
<1>. USE <1>1, <1>2, <1>3
<1>4. CASE index[t] >= count
  <2>1. line' = [line EXCEPT ![t] = "map_kernel"] /\ UNCHANGED index
    BY <1>4 DEF MapScan, Goto
  <2>2. TypeOK' /\ line'[t] = "map_kernel"
    BY <2>1 DEF Inv, TypeOK, Line
  <2>3. At(t)'
    BY <2>1, <2>2 DEF At
  <2>. QED
    BY <2>1, <2>2, <2>3, OneMoves DEF Line
<1>5. CASE ~(index[t] >= count) /\ entry[index[t]] # NONE
  <2>1. line' = [line EXCEPT ![t] = "map_take"] /\ UNCHANGED index
    BY <1>5 DEF MapScan, Goto
  <2>2. TypeOK' /\ line'[t] = "map_take"
    BY <2>1 DEF Inv, TypeOK, Line
  <2>3. index[t] < count
    BY <1>5, ThreadsAssumption DEF Inv, TypeOK
  <2>4. At(t)'
    BY <2>1, <2>2, <2>3 DEF At
  <2>. QED
    BY <2>1, <2>2, <2>4, OneMoves DEF Line
<1>6. CASE ~(index[t] >= count) /\ ~(entry[index[t]] # NONE)
  <2>1. UNCHANGED line /\ index' = [index EXCEPT ![t] = index[t] + 1]
    BY <1>6 DEF MapScan
  <2>2. index[t] + 1 \in 0 .. CACHE_SIZE
    BY <1>6, ThreadsAssumption DEF Inv, TypeOK
  <2>3. TypeOK' /\ line' = [line EXCEPT ![t] = "map_scan"]
    BY <2>1, <2>2 DEF Inv, TypeOK
  <2>4. At(t)'
    BY <2>1 DEF At
  <2>. QED
    BY <2>3, <2>4, OneMoves DEF Line
<1>. QED
  BY <1>4, <1>5, <1>6

\* The entry read is still counted: nobody else could take it.
LEMMA MapTakeInv ==
    ASSUME LOCKED, Inv, NEW t \in Thread, MapTake(t) PROVE Inv'
<1>1. /\ line[t] = "map_take" /\ line' = [line EXCEPT ![t] = "map_move"]
      /\ block' = [block EXCEPT ![t] = entry[index[t]]]
      /\ UNCHANGED <<entry, count, mapped, own, index, loaded, lock>>
  BY DEF MapTake, Goto
<1>2. Others(t) /\ At(t) /\ lock = t
  BY <1>1, Alone DEF Inv
<1>3. Kept(entry, mapped, own, count, {}) /\ index[t] < count
  BY <1>1, <1>2 DEF At
<1>4. entry[index[t]] \in Block
  BY <1>3, ThreadsAssumption DEF Kept, Inv, TypeOK
<1>5. TypeOK' /\ line'[t] = "map_move" /\ block'[t] = entry[index[t]]
  BY <1>1, <1>4 DEF Inv, TypeOK, Line
<1>6. At(t)'
  BY <1>1, <1>3, <1>5 DEF At
<1>. QED
  BY <1>1, <1>2, <1>5, <1>6, OneMoves DEF Line

\* The last entry replaces the one read, which is in transit from here on.
LEMMA MapMoveInv ==
    ASSUME LOCKED, Inv, NEW t \in Thread, MapMove(t) PROVE Inv'
<1>1. /\ line[t] = "map_move" /\ line' = [line EXCEPT ![t] = "map_load"]
      /\ entry' = [entry EXCEPT ![index[t]] = entry[count - 1]] /\ count > 0
      /\ UNCHANGED <<count, mapped, own, block, index, loaded, lock>>
  BY DEF MapMove, Goto, local
<1>2. Others(t) /\ At(t) /\ lock = t
  BY <1>1, Alone DEF Inv
<1>3. /\ Kept(entry, mapped, own, count, {}) /\ index[t] < count
      /\ block[t] = entry[index[t]]
  BY <1>1, <1>2 DEF At
<1>4. /\ count \in Nat /\ count <= CACHE_SIZE /\ CACHE_SIZE \in Nat
      /\ index[t] \in 0 .. count-1 /\ DOMAIN entry = 0 .. CACHE_SIZE-1
  BY <1>3, ThreadsAssumption DEF Inv, TypeOK
<1>5. Kept(entry', mapped, own, count - 1, {block[t]})
  BY <1>1, <1>3, <1>4, TakeOut
<1>6. entry[count - 1] \in Block \cup {NONE}
  BY <1>1, <1>4 DEF Inv, TypeOK
<1>7. TypeOK' /\ line'[t] = "map_load"
  BY <1>1, <1>6 DEF Inv, TypeOK, Line
<1>8. At(t)'
  BY <1>1, <1>5, <1>7 DEF At
<1>. QED
  BY <1>1, <1>2, <1>7, <1>8, OneMoves DEF Line

\* The count read is the count.
LEMMA MapLoadInv ==
    ASSUME LOCKED, Inv, NEW t \in Thread, MapLoad(t) PROVE Inv'
<1>1. /\ line[t] = "map_load" /\ line' = [line EXCEPT ![t] = "map_store"]
      /\ loaded' = [loaded EXCEPT ![t] = count]
      /\ UNCHANGED <<entry, count, mapped, own, block, index, lock>>
  BY DEF MapLoad, Goto
<1>2. Others(t) /\ At(t) /\ lock = t
  BY <1>1, Alone DEF Inv
<1>3. TypeOK' /\ line'[t] = "map_store" /\ loaded'[t] = count
  BY <1>1 DEF Inv, TypeOK, Line
<1>4. At(t)'
  BY <1>1, <1>2, <1>3 DEF At
<1>. QED
  BY <1>1, <1>2, <1>3, <1>4, OneMoves DEF Line

\* The count goes down as the block becomes memory of an arena.
LEMMA MapStoreInv ==
    ASSUME LOCKED, Inv, NEW t \in Thread, MapStore(t) PROVE Inv'
<1>1. /\ line[t] = "map_store" /\ line' = [line EXCEPT ![t] = "idle"]
      /\ count' = loaded[t] - 1 /\ own' = [own EXCEPT ![t] = own[t] \cup {block[t]}]
      /\ UNCHANGED <<entry, mapped, block, index, loaded>> /\ lock' = NONE
  BY DEF MapStore, Goto, Obtain, Unlock, local
<1>2. Others(t) /\ At(t)
  BY <1>1, Alone
<1>3. /\ count > 0 /\ Kept(entry, mapped, own, count - 1, {block[t]})
      /\ loaded[t] = count
  BY <1>1, <1>2 DEF At
<1>4. Kept(entry, mapped, own', count - 1, {}) /\ block[t] \in Block
  <2>1. DOMAIN own = Thread
    BY DEF Inv, TypeOK
  <2>. QED
    BY <1>1, <1>3, <2>1, Give DEF Kept
<1>5. TypeOK' /\ line'[t] = "idle" /\ count' = count - 1
  <2>1. count - 1 \in 0 .. CACHE_SIZE
    BY <1>3, ThreadsAssumption DEF Inv, TypeOK
  <2>. QED
    BY <1>1, <1>3, <1>4, <2>1 DEF Inv, TypeOK, Line
<1>6. At(t)'
  BY <1>1, <1>4, <1>5 DEF At
<1>. QED
  BY <1>1, <1>2, <1>5, <1>6, OneMoves DEF Line

\* A block from the kernel is nobody else's.
LEMMA MapKernelInv ==
    ASSUME LOCKED, Inv, NEW t \in Thread, MapKernel(t) PROVE Inv'
<1>1. PICK b \in Block \ mapped :
         /\ line[t] = "map_kernel" /\ line' = [line EXCEPT ![t] = "idle"]
         /\ mapped' = mapped \cup {b}
         /\ own' = [own EXCEPT ![t] = own[t] \cup {b}]
         /\ UNCHANGED <<entry, count, block, index, loaded>> /\ lock' = NONE
  BY DEF MapKernel, Goto, Obtain, Unlock, local
<1>2. Others(t) /\ At(t)
  BY <1>1, Alone
<1>3. Kept(entry, mapped, own, count, {})
  BY <1>1, <1>2 DEF At
<1>4. Kept(entry, mapped \cup {b}, own, count, {b})
  BY <1>3, MapNew
<1>5. Kept(entry, mapped', own', count, {})
  <2>1. DOMAIN own = Thread
    BY DEF Inv, TypeOK
  <2>. QED
    BY <1>1, <1>4, <2>1, Give
<1>6. TypeOK' /\ line'[t] = "idle"
  BY <1>1 DEF Inv, TypeOK, Line
<1>7. At(t)'
  BY <1>1, <1>5, <1>6 DEF At
<1>. QED
  BY <1>1, <1>2, <1>6, <1>7, OneMoves DEF Line

\* A refusal changes nothing but the lock.
LEMMA MapFailsInv ==
    ASSUME LOCKED, Inv, NEW t \in Thread, MapFails(t) PROVE Inv'
<1>1. /\ line[t] = "map_kernel" /\ line' = [line EXCEPT ![t] = "idle"]
      /\ UNCHANGED <<entry, count, mapped, own, block, index, loaded>>
      /\ lock' = NONE
  BY DEF MapFails, Goto, Unlock, local
<1>2. Others(t) /\ At(t)
  BY <1>1, Alone
<1>3. TypeOK' /\ line'[t] = "idle"
  BY <1>1 DEF Inv, TypeOK, Line
<1>4. At(t)'
  BY <1>1, <1>2, <1>3 DEF At
<1>. QED
  BY <1>1, <1>2, <1>3, <1>4, OneMoves DEF Line

\* The block of a destroyed arena is in transit.
LEMMA CallDestroyInv ==
    ASSUME LOCKED, Inv, NEW t \in Thread, CallDestroy(t) PROVE Inv'
<1>1. PICK b \in own[t] :
         /\ line[t] = "idle" /\ line' = [line EXCEPT ![t] = "release_test"]
         /\ lock = NONE /\ lock' = t
         /\ own' = [own EXCEPT ![t] = own[t] \ {b}]
         /\ block' = [block EXCEPT ![t] = b]
         /\ UNCHANGED <<entry, count, mapped, index, loaded>>
  BY DEF CallDestroy, Goto, Acquire
<1>2. Others(t) /\ At(t)
  BY <1>1, Alone
<1>3. Kept(entry, mapped, own, count, {})
  BY <1>1, <1>2 DEF At
<1>4. Kept(entry, mapped, own', count, {b})
  <2>1. DOMAIN own = Thread
    BY DEF Inv, TypeOK
  <2>. QED
    BY <1>1, <1>3, <2>1, TakeBack
<1>5. TypeOK' /\ line'[t] = "release_test" /\ block'[t] = b
  BY <1>1 DEF Inv, TypeOK, Line
<1>6. At(t)'
  BY <1>1, <1>4, <1>5 DEF At
<1>. QED
  BY <1>1, <1>2, <1>5, <1>6, OneMoves DEF Line

\* What the test of the count found stays true.
LEMMA ReleaseTestInv ==
    ASSUME LOCKED, Inv, NEW t \in Thread, ReleaseTest(t) PROVE Inv'
<1>. DEFINE l == IF count < CACHE_SIZE THEN "release_store" ELSE "unmap"
<1>1. /\ line[t] = "release_test" /\ line' = [line EXCEPT ![t] = l]
      /\ UNCHANGED <<entry, count, mapped, own, block, index, loaded, lock>>
  BY DEF ReleaseTest, Goto, local
<1>2. Others(t) /\ At(t) /\ lock = t
  BY <1>1, Alone DEF Inv
<1>3. Kept(entry, mapped, own, count, {block[t]})
  BY <1>1, <1>2 DEF At
<1>4. TypeOK' /\ line'[t] = l
  BY <1>1 DEF Inv, TypeOK, Line
<1>5. At(t)'
  BY <1>1, <1>3, <1>4 DEF At
<1>6. l \in Line
  BY DEF Line
<1>. QED
  BY <1>1, <1>2, <1>4, <1>5, <1>6, OneMoves

\* The entry behind the last one is free to write.
LEMMA ReleaseStoreInv ==
    ASSUME LOCKED, Inv, NEW t \in Thread, ReleaseStore(t) PROVE Inv'
<1>1. /\ line[t] = "release_store" /\ line' = [line EXCEPT ![t] = "release_load"]
      /\ entry' = [entry EXCEPT ![count] = block[t]] /\ count < CACHE_SIZE
      /\ UNCHANGED <<count, mapped, own, block, index, loaded, lock>>
  BY DEF ReleaseStore, Goto, local
<1>2. Others(t) /\ At(t) /\ lock = t
  BY <1>1, Alone DEF Inv
<1>3. Kept(entry, mapped, own, count, {block[t]})
  BY <1>1, <1>2 DEF At
<1>4. /\ count \in Nat /\ CACHE_SIZE \in Nat /\ block[t] \in Block \cup {NONE}
      /\ DOMAIN entry = 0 .. CACHE_SIZE-1
  BY ThreadsAssumption DEF Inv, TypeOK
<1>5. Kept(entry', mapped, own, count, {block[t]}) /\ entry'[count] = block[t]
  <2>1. entry'[count] = block[t]
    BY <1>1, <1>4
  <2>2. Kept([entry EXCEPT ![count] = block[t]], mapped, own, count, {block[t]})
    BY <1>1, <1>3, <1>4, StoreBehind
  <2>. QED
    BY <1>1, <2>1, <2>2
<1>6. TypeOK' /\ line'[t] = "release_load"
  BY <1>1, <1>4 DEF Inv, TypeOK, Line
<1>7. At(t)'
  BY <1>1, <1>5, <1>6 DEF At
<1>. QED
  BY <1>1, <1>2, <1>6, <1>7, OneMoves DEF Line

\* The count read is the count, as in MapLoad.
LEMMA ReleaseLoadInv ==
    ASSUME LOCKED, Inv, NEW t \in Thread, ReleaseLoad(t) PROVE Inv'
<1>1. /\ line[t] = "release_load" /\ line' = [line EXCEPT ![t] = "release_count"]
      /\ loaded' = [loaded EXCEPT ![t] = count]
      /\ UNCHANGED <<entry, count, mapped, own, block, index, lock>>
  BY DEF ReleaseLoad, Goto
<1>2. Others(t) /\ At(t) /\ lock = t
  BY <1>1, Alone DEF Inv
<1>3. TypeOK' /\ line'[t] = "release_count" /\ loaded'[t] = count
  BY <1>1 DEF Inv, TypeOK, Line
<1>4. At(t)'
  BY <1>1, <1>2, <1>3 DEF At
<1>. QED
  BY <1>1, <1>2, <1>3, <1>4, OneMoves DEF Line

\* The count goes up over the entry that was written.
LEMMA ReleaseCountInv ==
    ASSUME LOCKED, Inv, NEW t \in Thread, ReleaseCount(t) PROVE Inv'
<1>1. /\ line[t] = "release_count" /\ line' = [line EXCEPT ![t] = "idle"]
      /\ count' = loaded[t] + 1 /\ lock' = NONE
      /\ UNCHANGED <<entry, mapped, own, block, index, loaded>>
  BY DEF ReleaseCount, Goto, Unlock, local
<1>2. Others(t) /\ At(t)
  BY <1>1, Alone
<1>3. /\ Kept(entry, mapped, own, count, {block[t]}) /\ count < CACHE_SIZE
      /\ entry[count] = block[t] /\ loaded[t] = count
  BY <1>1, <1>2 DEF At
<1>4. count \in Nat
  BY DEF Inv, TypeOK
<1>5. Kept(entry, mapped, own, count + 1, {})
  BY <1>3, <1>4, CountIt
<1>6. TypeOK' /\ line'[t] = "idle" /\ count' = count + 1
  <2>1. count + 1 \in 0 .. CACHE_SIZE
    BY <1>3, <1>4, ThreadsAssumption
  <2>. QED
    BY <1>1, <1>3, <2>1 DEF Inv, TypeOK, Line
<1>7. At(t)'
  BY <1>1, <1>5, <1>6 DEF At
<1>. QED
  BY <1>1, <1>2, <1>6, <1>7, OneMoves DEF Line

\* With a full cache the block goes back to the kernel.
LEMMA UnmapInv ==
    ASSUME LOCKED, Inv, NEW t \in Thread, Unmap(t) PROVE Inv'
<1>1. /\ line[t] = "unmap" /\ line' = [line EXCEPT ![t] = "idle"]
      /\ mapped' = mapped \ {block[t]} /\ lock' = NONE
      /\ UNCHANGED <<entry, count, own, block, index, loaded>>
  BY DEF Unmap, Goto, Unlock, local
<1>2. Others(t) /\ At(t)
  BY <1>1, Alone
<1>3. Kept(entry, mapped, own, count, {block[t]})
  BY <1>1, <1>2 DEF At
<1>4. Kept(entry, mapped', own, count, {})
  BY <1>1, <1>3, UnmapLoose
<1>5. TypeOK' /\ line'[t] = "idle"
  BY <1>1 DEF Inv, TypeOK, Line
<1>6. At(t)'
  BY <1>1, <1>4, <1>5 DEF At
<1>. QED
  BY <1>1, <1>2, <1>5, <1>6, OneMoves DEF Line

\* With the lock, every step of every thread preserves the invariant.
LEMMA NextInv == ASSUME LOCKED PROVE Inv /\ [Next]_vars => Inv'
<1>. SUFFICES ASSUME Inv, [Next]_vars PROVE Inv'
  OBVIOUS
<1>1. CASE UNCHANGED vars
  BY <1>1 DEF vars, Inv, TypeOK, Others, At
<1>2. ASSUME NEW t \in Thread, CallCreate(t) \/ CallDestroy(t) PROVE Inv'
  BY <1>2, CallCreateInv, CallDestroyInv
<1>3. ASSUME NEW t \in Thread, Step(t) PROVE Inv'
  BY <1>3, MapScanInv, MapTakeInv, MapMoveInv, MapLoadInv, MapStoreInv,
     MapKernelInv, MapFailsInv, ReleaseTestInv, ReleaseStoreInv, ReleaseLoadInv,
     ReleaseCountInv, UnmapInv
     DEF Step
<1>. QED
  BY <1>1, <1>2, <1>3 DEF Next

-------------------------------------------------------------------------------
(* The theorems. *)

\* The entries of the cache are as many blocks as are counted.
LEMMA CachedCount ==
    ASSUME NEW n \in Nat, NEW e, \A i, j \in 0 .. n-1 : e[i] = e[j] => i = j
    PROVE  Cardinality({e[i] : i \in 0 .. n-1}) = n
<1>. DEFINE S == {e[i] : i \in 0 .. n-1}
            f == [k \in 1 .. n |-> e[k-1]]
<1>1. \A k \in 1 .. n : k-1 \in 0 .. n-1
  OBVIOUS
<1>2. f \in [1 .. n -> S]
  BY <1>1
<1>3. \A k, l \in 1 .. n : f[k] = f[l] => k = l
  <2>. SUFFICES ASSUME NEW k \in 1 .. n, NEW l \in 1 .. n, f[k] = f[l]
                PROVE  k = l
    OBVIOUS
  <2>1. k-1 = l-1
    BY <1>1
  <2>. QED
    BY <2>1
<1>4. \A x \in S : \E k \in 1 .. n : f[k] = x
  <2>. SUFFICES ASSUME NEW i \in 0 .. n-1 PROVE \E k \in 1 .. n : f[k] = e[i]
    OBVIOUS
  <2>1. i+1 \in 1 .. n /\ (i+1)-1 = i
    OBVIOUS
  <2>. QED
    BY <2>1
<1>. HIDE DEF f, S
<1>5. ExistsBijection(1 .. n, S)
  BY <1>2, <1>3, <1>4
     DEF ExistsBijection, Bijection, Injection, Surjection, IsInjective
<1>. QED
  BY <1>5, FS_CountingElements DEF S

\* The invariant implies the properties.
LEMMA InvSafe == Inv => TypeOK /\ ExclusiveBlocks /\ QuietlyConserved
<1>. SUFFICES ASSUME Inv PROVE TypeOK /\ ExclusiveBlocks /\ QuietlyConserved
  OBVIOUS
<1>1. TypeOK
  BY DEF Inv
<1>2. ExclusiveBlocks
  <2>1. PICK t \in Thread : Others(t)
    BY ThreadsAssumption DEF Inv, Others
  <2>2. At(t) /\ line[t] \in Line
    BY <2>1 DEF Inv, TypeOK
  <2>3. \E n, loose : Kept(entry, mapped, own, n, loose)
    BY <2>2 DEF At, Line
  <2>. QED
    BY <2>3 DEF Kept, ExclusiveBlocks
<1>3. QuietlyConserved
  <2>. SUFFICES ASSUME \A t \in Thread : line[t] = "idle"
                PROVE  /\ mapped = CachedBlocks \cup UNION {own[t] : t \in Thread}
                       /\ CachedBlocks \cap (UNION {own[t] : t \in Thread}) = {}
                       /\ Cardinality(CachedBlocks) = count
    BY DEF QuietlyConserved
  <2>1. PICK t \in Thread : Others(t) /\ At(t) /\ line[t] = "idle"
    BY ThreadsAssumption DEF Inv, Others
  <2>2. Kept(entry, mapped, own, count, {})
    BY <2>1 DEF At
  <2>3. count \in Nat
    BY <1>1 DEF TypeOK
  <2>4. Cardinality(CachedBlocks) = count
    BY <2>2, <2>3, CachedCount DEF Kept, CachedBlocks
  <2>. QED
    BY <2>2, <2>4 DEF Kept, CachedBlocks
<1>. QED
  BY <1>1, <1>2, <1>3

\* With the lock, arena_cache_count and the index of the loop stay within the
\* array, whatever the size of the cache.
THEOREM LockedTypes == ASSUME LOCKED PROVE Spec => []TypeOK
<1>. QED
  BY InitInv, NextInv, InvSafe, PTL DEF Spec

\* A lock of the whole context is enough for bc_allocators_arena_map_block never
\* to give one block to the arenas of two threads.
THEOREM LockedExclusive == ASSUME LOCKED PROVE Spec => []ExclusiveBlocks
<1>. QED
  BY InitInv, NextInv, InvSafe, PTL DEF Spec

\* With the lock, between operations every mapped block is in one arena or one
\* entry of the cache: release_block and map_block lose none and unmap none that
\* is named.
THEOREM LockedConserved == ASSUME LOCKED PROVE Spec => []QuietlyConserved
<1>. QED
  BY InitInv, NextInv, InvSafe, PTL DEF Spec
===============================================================================
