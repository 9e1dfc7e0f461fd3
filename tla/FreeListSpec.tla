----------------------------- MODULE FreeListSpec -----------------------------
(***************************************************************************)
(* One free list of the pool and those who use it.  The program pushes a   *)
(* block it holds, pops one, and writes at will the first word of a block  *)
(* it holds: the word the chain links live in.  Blocks not yet carved from *)
(* their page count as held; carving pushes several on an empty list.      *)
(***************************************************************************)
EXTENDS FreeList

CONSTANTS Block,   \* the blocks of one size class
          Value    \* what the program writes in a block it holds

ASSUME BlockAssumption == NULL \notin Block /\ IsFiniteSet(Block)

VARIABLES list,     \* the free list, [mag, head]
          mem,      \* the first word of each block
          held,     \* the blocks the program holds, or nobody has carved
          result,   \* what the last pop returned
          chain     \* history: the blocks of the overflow chain

vars == <<list, mem, held, result, chain>>

Init == /\ list = EmptyList
        /\ held = Block
        /\ mem \in [Block -> {Data(v) : v \in Value}]
        /\ result = NULL
        /\ chain = <<>>

DoPush(b) == /\ b \in held
             /\ list' = Push(list, b)
             /\ mem' = PushMem(list, mem, b)
             /\ held' = held \ {b}
             /\ chain' = PushChain(list, chain, b)
             /\ UNCHANGED result

\* bump_allocate_class, once a pop has found nothing, pushes the blocks of a
\* new page one after the other.
DoCarve(bs) == /\ Top(list) = NULL
               /\ list' = PushAll(list, bs)
               /\ mem' = PushAllMem(list, mem, bs)
               /\ held' = held \ ToSet(bs)
               /\ chain' = PushAllChain(list, chain, bs)
               /\ UNCHANGED result

\* A slip: the NULL of an empty list is taken for a block.
DoPopUnchecked == /\ result' = Top(list)
                  /\ list' = Popped(list, mem)
                  /\ held' = held \cup {Top(list)}
                  /\ chain' = PoppedChain(list, chain)
                  /\ UNCHANGED mem

DoPop == /\ result' = Top(list)
         /\ list' = Popped(list, mem)
         /\ held' = IF Top(list) = NULL THEN held ELSE held \cup {Top(list)}
         /\ chain' = PoppedChain(list, chain)
         /\ UNCHANGED mem

\* The program writes in a block it holds.
Write(b, v) == /\ b \in held
               /\ mem' = [mem EXCEPT ![b] = Data(v)]
               /\ UNCHANGED <<list, held, result, chain>>

Next == \/ \E b \in Block : DoPush(b)
        \/ \E S \in SUBSET held : \E bs \in SetToSeqs(S) : DoCarve(bs)
        \/ DoPop
        \/ \E b \in Block, v \in Value : Write(b, v)

Spec == Init /\ [][Next]_vars

-------------------------------------------------------------------------------
(* Properties *)

Word == {Data(v) : v \in Value} \cup {Link(b) : b \in Block \cup {NULL}}

\* Type invariant: the head is a block or NULL, and every word was written by
\* the program or by a push.
TypeOK == /\ list \in List(Block)
          /\ mem \in [Block -> Word]
          /\ held \subseteq Block
          /\ result \in Block \cup {NULL}
          /\ chain \in Seq(Block)

\* The magazine, which never outgrows its array, and the chain that starts at
\* head hold every block pushed and not popped since, once each: a block that
\* spills into the chain, or comes back once the magazine is empty, is neither
\* lost nor handed out twice.
NothingLost == /\ IsList(list, mem, chain)
               /\ FreeOf(list, chain) = Block \ held

\* free_list_push and free_list_pop implement a set of free blocks: a pop
\* returns a block nobody holds, and NULL only when every block is held.
Free == INSTANCE FreeSet
IsFreeSet == Free!Spec
===============================================================================
