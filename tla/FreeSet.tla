------------------------------- MODULE FreeSet -------------------------------
(***************************************************************************)
(* What a free list of the pool promises to its callers, whatever its      *)
(* layout in memory.  A block is either free or held by a caller; a pop    *)
(* hands out a free block, and NULL exactly when nothing is free.  Which   *)
(* of the free blocks it hands out is not promised.                        *)
(***************************************************************************)
CONSTANTS Block, NULL

VARIABLES held,    \* the blocks the callers hold
          result   \* what the last pop returned

vars == <<held, result>>

Init == /\ held = Block
        /\ result = NULL

Push(b) == /\ b \in held
           /\ held' = held \ {b}
           /\ UNCHANGED result

\* Several blocks at once, when none is free.
Fill(S) == /\ held = Block /\ S \subseteq held
           /\ held' = held \ S
           /\ UNCHANGED result

PopBlock(b) == /\ b \in Block \ held
               /\ held' = held \cup {b}
               /\ result' = b

PopEmpty == /\ held = Block
            /\ result' = NULL
            /\ UNCHANGED held

Next == \/ \E b \in Block : Push(b) \/ PopBlock(b)
        \/ \E S \in SUBSET Block : Fill(S)
        \/ PopEmpty

Spec == Init /\ [][Next]_vars
==============================================================================
