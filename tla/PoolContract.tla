----------------------------- MODULE PoolContract -----------------------------
(***************************************************************************)
(* What the pool promises to its callers: malloc, realloc and free over    *)
(* one region.  An allocation is a range of bytes of the region that       *)
(* overlaps no other, and keeps what its owner wrote until it is freed,    *)
(* through reallocations too.  A call may fail; a failed call changes      *)
(* nothing.                                                                *)
(***************************************************************************)
EXTENDS Integers

CONSTANTS REGION,   \* bytes in the region
          Size,     \* the sizes asked for
          Datum     \* what a caller may find or write in an allocation

VARIABLE live       \* the allocations: [at, size, data]

Range(x) == x.at .. x.at + x.size - 1

Disjoint(x, S) == \A y \in S : Range(x) \cap Range(y) = {}

\* x can be an allocation beside those of S.
Fits(x, S) == /\ x.size \in Size \ {0} /\ x.data \in Datum
              /\ Range(x) \subseteq 0 .. REGION - 1
              /\ Disjoint(x, S)

Init == live = {}

Allocate(x) == Fits(x, live) /\ live' = live \cup {x}

Free(x) == live' = live \ {x}

\* x is reallocated to y.
Reallocate(x, y) == /\ Fits(y, live \ {x}) /\ y.data = x.data
                    /\ live' = (live \ {x}) \cup {y}

Write(x, d) == live' = (live \ {x}) \cup {[x EXCEPT !.data = d]}

Next == \/ \E x \in live' : Allocate(x)
        \/ \E x \in live : \/ Free(x)
                           \/ \E y \in live' : Reallocate(x, y)
                           \/ \E d \in Datum : Write(x, d)

Spec == Init /\ [][Next]_live
===============================================================================
