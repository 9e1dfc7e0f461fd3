----------------------------- MODULE SlabContract -----------------------------
(***************************************************************************)
(* What the slabs promise to their callers.  An object is the caller's     *)
(* from its allocation to its free, or to the destruction of its slab,     *)
(* which ends all the objects of that slab and no other.  An allocation    *)
(* returns an object that nobody has, whatever the slab; an object keeps   *)
(* what its owner wrote.  A slab can tell how many objects are in use.  A  *)
(* call may fail; a failed call changes nothing.                           *)
(***************************************************************************)
EXTENDS Integers

CONSTANTS Name,      \* the slabs
          Address,   \* where objects may lie
          Datum      \* what a caller may find or write in an object

VARIABLES used,      \* how many objects each live slab says are in use
          live       \* the objects in use: [slab, at, data]

vars == <<used, live>>

Init == used = <<>> /\ live = {}

Create(s) == /\ s \notin DOMAIN used
             /\ used' = [t \in DOMAIN used \cup {s} |->
                            IF t = s THEN 0 ELSE used[t]]
             /\ UNCHANGED live

Allocate(x) == /\ x.slab \in DOMAIN used
               /\ x.at \in Address /\ x.data \in Datum
               /\ \A y \in live : y.at # x.at
               /\ live' = live \cup {x}
               /\ used' = [used EXCEPT ![x.slab] = used[x.slab] + 1]

Free(x) == /\ live' = live \ {x}
           /\ used' = [used EXCEPT ![x.slab] = used[x.slab] - 1]

Write(x, d) == /\ live' = (live \ {x}) \cup {[x EXCEPT !.data = d]}
               /\ UNCHANGED used

Destroy(s) == /\ s \in DOMAIN used
              /\ used' = [t \in DOMAIN used \ {s} |-> used[t]]
              /\ live' = {x \in live : x.slab # s}

Next == \/ \E s \in Name : Create(s) \/ Destroy(s)
        \/ \E x \in live' : Allocate(x)
        \/ \E x \in live : Free(x) \/ \E d \in Datum : Write(x, d)

Spec == Init /\ [][Next]_vars
===============================================================================
