---------------------------- MODULE ArenaContract -----------------------------
(***************************************************************************)
(* What the arenas of a context promise to their callers.  An allocation   *)
(* is a range of bytes, aligned as asked, that overlaps no other           *)
(* allocation of any arena; it is the caller's, whatever the arenas do     *)
(* meanwhile, until its own arena is reset or destroyed, which ends all    *)
(* the allocations of that arena and no other.  A call may fail; a failed  *)
(* call changes nothing a caller can see.                                  *)
(***************************************************************************)
EXTENDS Integers

CONSTANTS Name,      \* the names of arenas
          Byte,      \* the addresses of bytes
          Size, Alignment

VARIABLES open,      \* the arenas created and not destroyed
          live       \* the allocations: [arena, at, size, alignment]

vars == <<open, live>>

Bytes(x) == x.at .. x.at + x.size - 1

Init == open = {} /\ live = {}

Create(a) == /\ a \in Name \ open
             /\ open' = open \cup {a}
             /\ UNCHANGED live

Allocate(x) ==
    /\ x.arena \in open /\ x.size \in Size \ {0} /\ x.alignment \in Alignment
    /\ x.at % x.alignment = 0 /\ Bytes(x) \subseteq Byte
    /\ \A y \in live : Bytes(x) \cap Bytes(y) = {}
    /\ live' = live \cup {x}
    /\ UNCHANGED open

Forget(a) == live' = {x \in live : x.arena # a}

Reset(a) == a \in open /\ Forget(a) /\ UNCHANGED open

Destroy(a) == a \in open /\ Forget(a) /\ open' = open \ {a}

Next == \/ \E a \in Name : Create(a) \/ Reset(a) \/ Destroy(a)
        \/ \E x \in live' : Allocate(x)

Spec == Init /\ [][Next]_vars
===============================================================================
