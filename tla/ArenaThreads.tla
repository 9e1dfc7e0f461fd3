----------------------------- MODULE ArenaThreads ------------------------------
(***************************************************************************)
(* Threads that each create and destroy arenas of their own, of one size,  *)
(* on a context they share: bc_allocators_arena_map_block and              *)
(* bc_allocators_arena_release_block, one access of an entry of            *)
(* arena_cache or of arena_cache_count to a step.  With LOCKED, a caller   *)
(* takes a lock of the whole context around each operation.                *)
(*                                                                         *)
(* An entry is read and written whole: its size is that of every arena     *)
(* here, so the two stores of its fields are one step.  The steps          *)
(* interleave as if memory were sequentially consistent.  Both is less     *)
(* than what the data race on these plain fields permits.                  *)
(***************************************************************************)
EXTENDS Integers, FiniteSets

CONSTANTS Thread,
          Block,        \* the blocks the kernel may map
          CACHE_SIZE,   \* BC_ALLOCATORS_ARENA_CACHE_SIZE
          LOCKED,
          NONE

ASSUME ThreadsAssumption == /\ Thread # {} /\ CACHE_SIZE \in Nat \ {0} /\ LOCKED \in BOOLEAN
                            /\ NONE \notin Thread \cup Block

VARIABLES entry,    \* arena_cache, indexed from 0; NONE where never written
          count,    \* arena_cache_count
          mapped,   \* the kernel: the blocks mapped
          own,      \* the blocks of the arenas each thread has
          line,     \* where each thread is
          block,    \* its local variable `block`
          index,    \* its local variable `cache_index`
          loaded,   \* what it read of arena_cache_count
          lock      \* the thread that holds the caller's lock

vars == <<entry, count, mapped, own, line, block, index, loaded, lock>>
local == <<block, index, loaded>>

Line == {"idle", "map_scan", "map_take", "map_move", "map_load", "map_store",
         "map_kernel", "release_test", "release_store", "release_load",
         "release_count", "unmap"}

Init == /\ entry = [i \in 0 .. CACHE_SIZE-1 |-> NONE]
        /\ count = 0
        /\ mapped = {}
        /\ own = [t \in Thread |-> {}]
        /\ line = [t \in Thread |-> "idle"]
        /\ block = [t \in Thread |-> NONE]
        /\ index = [t \in Thread |-> 0]
        /\ loaded = [t \in Thread |-> 0]
        /\ lock = NONE

Goto(t, from, to) == /\ line[t] = from
                     /\ line' = [line EXCEPT ![t] = to]

Acquire(t) == IF LOCKED THEN lock = NONE /\ lock' = t ELSE UNCHANGED lock

Unlock == IF LOCKED THEN NONE ELSE lock

-------------------------------------------------------------------------------
(* bc_allocators_arena_map_block *)

CallCreate(t) == /\ Goto(t, "idle", "map_scan") /\ Acquire(t)
                 /\ index' = [index EXCEPT ![t] = 0]
                 /\ UNCHANGED <<entry, count, mapped, own, block, loaded>>

\* The loop: its test of the count, and the comparison of the size.  An entry
\* never written has no size.
MapScan(t) ==
    /\ line[t] = "map_scan"
    /\ IF index[t] >= count THEN /\ Goto(t, "map_scan", "map_kernel")
                                 /\ UNCHANGED index
       ELSE IF entry[index[t]] # NONE THEN /\ Goto(t, "map_scan", "map_take")
                                           /\ UNCHANGED index
       ELSE /\ index' = [index EXCEPT ![t] = index[t] + 1]
            /\ UNCHANGED line
    /\ UNCHANGED <<entry, count, mapped, own, block, loaded, lock>>

\* A slip: the entry after the one that matches.
MapTakeNext(t) == /\ Goto(t, "map_take", "map_move")
                  /\ block' = [block EXCEPT ![t] = entry[index[t] + 1]]
                  /\ UNCHANGED <<entry, count, mapped, own, index, loaded, lock>>

MapTake(t) == /\ Goto(t, "map_take", "map_move")
              /\ block' = [block EXCEPT ![t] = entry[index[t]]]
              /\ UNCHANGED <<entry, count, mapped, own, index, loaded, lock>>

\* A count of zero here would read outside the array: no such step is taken.
MapMove(t) == /\ count > 0
              /\ Goto(t, "map_move", "map_load")
              /\ entry' = [entry EXCEPT ![index[t]] = entry[count - 1]]
              /\ UNCHANGED <<count, mapped, own, local, lock>>

MapLoad(t) == /\ Goto(t, "map_load", "map_store")
              /\ loaded' = [loaded EXCEPT ![t] = count]
              /\ UNCHANGED <<entry, count, mapped, own, block, index, lock>>

Obtain(t, b) == /\ own' = [own EXCEPT ![t] = own[t] \cup {b}]
                /\ lock' = Unlock

\* A slip: the count does not go down.
MapStoreNot(t) == /\ Goto(t, "map_store", "idle")
                  /\ Obtain(t, block[t])
                  /\ UNCHANGED <<entry, count, mapped, local>>

MapStore(t) == /\ Goto(t, "map_store", "idle")
               /\ count' = loaded[t] - 1
               /\ Obtain(t, block[t])
               /\ UNCHANGED <<entry, mapped, local>>

MapKernel(t) == /\ Goto(t, "map_kernel", "idle")
                /\ \E b \in Block \ mapped : /\ mapped' = mapped \cup {b}
                                             /\ Obtain(t, b)
                /\ UNCHANGED <<entry, count, local>>

\* The kernel refuses.
MapFails(t) == /\ Goto(t, "map_kernel", "idle")
               /\ lock' = Unlock
               /\ UNCHANGED <<entry, count, mapped, own, local>>

-------------------------------------------------------------------------------
(* bc_allocators_arena_release_block *)

CallDestroy(t) == /\ Goto(t, "idle", "release_test") /\ Acquire(t)
                  /\ \E b \in own[t] :
                        /\ own' = [own EXCEPT ![t] = own[t] \ {b}]
                        /\ block' = [block EXCEPT ![t] = b]
                  /\ UNCHANGED <<entry, count, mapped, index, loaded>>

\* A slip: the block goes to the cache and back to the kernel.
ReleaseTestAlways(t) ==
    /\ Goto(t, "release_test", "unmap")
    /\ entry' = IF count < CACHE_SIZE THEN [entry EXCEPT ![count] = block[t]]
                                      ELSE entry
    /\ count' = IF count < CACHE_SIZE THEN count + 1 ELSE count
    /\ UNCHANGED <<mapped, own, local, lock>>

ReleaseTest(t) ==
    /\ Goto(t, "release_test", IF count < CACHE_SIZE THEN "release_store"
                                                     ELSE "unmap")
    /\ UNCHANGED <<entry, count, mapped, own, local, lock>>

\* A count at the end of the array would write outside it.
ReleaseStore(t) == /\ count < CACHE_SIZE
                   /\ Goto(t, "release_store", "release_load")
                   /\ entry' = [entry EXCEPT ![count] = block[t]]
                   /\ UNCHANGED <<count, mapped, own, local, lock>>

ReleaseLoad(t) == /\ Goto(t, "release_load", "release_count")
                  /\ loaded' = [loaded EXCEPT ![t] = count]
                  /\ UNCHANGED <<entry, count, mapped, own, block, index, lock>>

ReleaseCount(t) == /\ Goto(t, "release_count", "idle")
                   /\ count' = loaded[t] + 1
                   /\ lock' = Unlock
                   /\ UNCHANGED <<entry, mapped, own, local>>

Unmap(t) == /\ Goto(t, "unmap", "idle")
            /\ mapped' = mapped \ {block[t]}
            /\ lock' = Unlock
            /\ UNCHANGED <<entry, count, own, local>>

-------------------------------------------------------------------------------
Step(t) == \/ MapScan(t) \/ MapTake(t) \/ MapMove(t) \/ MapLoad(t) \/ MapStore(t)
           \/ MapKernel(t) \/ MapFails(t)
           \/ ReleaseTest(t) \/ ReleaseStore(t) \/ ReleaseLoad(t)
           \/ ReleaseCount(t) \/ Unmap(t)

Next == \E t \in Thread : CallCreate(t) \/ CallDestroy(t) \/ Step(t)

Spec == Init /\ [][Next]_vars

-------------------------------------------------------------------------------
(* Properties *)

\* Type invariant: the count stays within the array.
TypeOK == /\ entry \in [0 .. CACHE_SIZE-1 -> Block \cup {NONE}]
          /\ count \in 0 .. CACHE_SIZE
          /\ mapped \subseteq Block
          /\ own \in [Thread -> SUBSET Block]
          /\ line \in [Thread -> Line]
          /\ block \in [Thread -> Block \cup {NONE}]
          /\ index \in [Thread -> 0 .. CACHE_SIZE]
          /\ loaded \in [Thread -> 0 .. CACHE_SIZE]
          /\ lock \in Thread \cup {NONE}

\* arena.h asks that each arena be used from a single thread: then no block is
\* the memory of the arenas of two threads.  bc_allocators_arena_map_block
\* hands out the same cache entry twice when two threads are in its loop.
ExclusiveBlocks == \A t, u \in Thread : t # u => own[t] \cap own[u] = {}

\* When no thread is inside an operation, every mapped block is in an arena or
\* in the cache, not in both, and once: none leaks and none is unmapped while
\* something still names it.
CachedBlocks == {entry[i] : i \in 0 .. count-1}

QuietlyConserved ==
    (\A t \in Thread : line[t] = "idle") =>
        /\ mapped = CachedBlocks \cup UNION {own[t] : t \in Thread}
        /\ CachedBlocks \cap UNION {own[t] : t \in Thread} = {}
        /\ Cardinality(CachedBlocks) = count
===============================================================================
