------------------------------- MODULE FreeList -------------------------------
(***************************************************************************)
(* The two-level free list of the pool (free_list_push and free_list_pop): *)
(* a magazine of MAG_SIZE pointers in the list itself, and behind it an    *)
(* intrusive chain whose links are the first words of the free blocks.     *)
(*                                                                         *)
(* The operators are pure: `l` is the list [mag, head] and `mem` the       *)
(* memory, a function from addresses to words.  Everything that owns a     *)
(* first word shares `mem`: a link of the chain, the data of the program   *)
(* that holds the block, the user_size of a large block.                   *)
(***************************************************************************)
EXTENDS Integers, Sequences, SequencesExt

CONSTANTS MAG_SIZE,   \* slots of the magazine, BC_ALLOCATORS_MAG_SIZE = 14
          NULL

ASSUME MagSizeAssumption == MAG_SIZE \in Nat

\* A word says who wrote it.  Only a link is ever followed.
Link(b) == <<"link", b>>
Data(v) == <<"data", v>>
Number(n) == <<"number", n>>
Target(word) == word[2]

List(B) == [mag : Seq(B), head : B \cup {NULL}]

EmptyList == [mag |-> <<>>, head |-> NULL]

HasRoom(l) == Len(l.mag) < MAG_SIZE

\* free_list_push: the block itself is written only when the magazine is full.
Push(l, ptr) == IF HasRoom(l) THEN [l EXCEPT !.mag = Append(l.mag, ptr)]
                              ELSE [l EXCEPT !.head = ptr]

\* A slip: the head moves before the link is written.
PushMemLate(l, mem, ptr) == IF HasRoom(l) THEN mem
                                          ELSE [mem EXCEPT ![ptr] = Link(ptr)]

PushMem(l, mem, ptr) == IF HasRoom(l) THEN mem
                                      ELSE [mem EXCEPT ![ptr] = Link(l.head)]

\* free_list_pop: the block it returns, and the list it leaves.
Top(l) == IF l.mag # <<>> THEN Last(l.mag) ELSE l.head

\* A slip: the head does not advance.
PoppedStuck(l, mem) ==
    IF l.mag # <<>> THEN [l EXCEPT !.mag = Front(l.mag)] ELSE l

Popped(l, mem) ==
    IF l.mag # <<>> THEN [l EXCEPT !.mag = Front(l.mag)]
    ELSE IF l.head # NULL THEN [l EXCEPT !.head = Target(mem[l.head])]
    ELSE l

(***************************************************************************)
(* Pushing the blocks of the sequence bs one after the other, in closed    *)
(* form: the first ones fill the magazine, the others are chained.         *)
(***************************************************************************)
Fill(l, bs) == LET room == MAG_SIZE - Len(l.mag)
               IN  IF Len(bs) < room THEN Len(bs) ELSE room

PushAll(l, bs) == LET k == Fill(l, bs) IN
    [mag  |-> l.mag \o SubSeq(bs, 1, k),
     head |-> IF k < Len(bs) THEN bs[Len(bs)] ELSE l.head]

PushAllMem(l, mem, bs) == LET k == Fill(l, bs) IN
    [a \in DOMAIN mem |->
        IF \E i \in k+1..Len(bs) : bs[i] = a
        THEN LET i == CHOOSE i \in k+1..Len(bs) : bs[i] = a
             IN  Link(IF i = k+1 THEN l.head ELSE bs[i-1])
        ELSE mem[a]]

-------------------------------------------------------------------------------
(***************************************************************************)
(* History of the overflow chain, for the invariants: the sequence of its  *)
(* blocks, the head at the end.  The code keeps no such sequence.          *)
(***************************************************************************)
PushChain(l, chain, ptr) == IF HasRoom(l) THEN chain ELSE Append(chain, ptr)

PoppedChain(l, chain) == IF l.mag # <<>> \/ chain = <<>> THEN chain
                                                         ELSE Front(chain)

PushAllChain(l, chain, bs) == chain \o SubSeq(bs, Fill(l, bs) + 1, Len(bs))

FreeOf(l, chain) == ToSet(l.mag) \cup ToSet(chain)

Injective(s) == \A i, j \in DOMAIN s : s[i] = s[j] => i = j

(***************************************************************************)
(* The list l in memory mem: the magazine fits its array, walking from the *)
(* head visits exactly the blocks of chain and ends at NULL, and no block  *)
(* is in the list twice.                                                   *)
(***************************************************************************)
IsList(l, mem, chain) ==
    /\ Len(l.mag) <= MAG_SIZE
    /\ l.head = IF chain = <<>> THEN NULL ELSE Last(chain)
    /\ \A i \in DOMAIN chain :
           mem[chain[i]] = Link(IF i = 1 THEN NULL ELSE chain[i-1])
    /\ Injective(l.mag)
    /\ Injective(chain)
    /\ ToSet(l.mag) \cap ToSet(chain) = {}
===============================================================================
