------------------------------ MODULE TypedArray ------------------------------
(***************************************************************************)
(* One array of BC_TYPED_ARRAY_DEFINE, over a pool that gives exactly the  *)
(* bytes asked for, may refuse at any time, and moves a block or not when  *)
(* it reallocates it.                                                      *)
(*                                                                         *)
(* A block is the sequence of the elements it has room for.  The call of   *)
(* append_bulk that has to grow is followed through its loop, one turn a   *)
(* step: whether it returns is in question.  The other calls are one step. *)
(***************************************************************************)
EXTENDS Integers, Sequences, FiniteSets

CONSTANTS WRAP,       \* where size_t wraps
          ELEMENT,    \* sizeof(element_type)
          FIRST,      \* the first capacity, 8 in the code
          MEMORY,     \* bytes of the largest block the pool can give
          Block,      \* the names of blocks
          Value,      \* elements
          Source,     \* what append_bulk is asked to append
          Wanted,     \* capacities asked for
          NULL, UNKNOWN

ASSUME ArrayAssumption ==
    /\ WRAP \in Nat /\ ELEMENT \in Nat \ {0} /\ FIRST \in 2 .. WRAP-1
    /\ MEMORY \in Nat /\ 2 * MEMORY < ELEMENT * WRAP
    /\ Source \subseteq Seq(Value) /\ \A src \in Source : Len(src) < WRAP
    /\ Wanted \subseteq 0 .. WRAP-1 /\ NULL \notin Block

VARIABLES heap,     \* the blocks taken from the pool
          arr,      \* the array
          call,     \* the append_bulk in its loop, IDLE if there is none
          grown     \* history: how often the slow path grew this array

vars == <<heap, arr, call, grown>>

IDLE == [src |-> <<>>, new_cap |-> 0]

Empty == [data |-> NULL, length |-> 0, capacity |-> 0]

Init == heap = <<>> /\ arr = Empty /\ call = IDLE /\ grown = 0

-------------------------------------------------------------------------------
(* The pool. *)

Resized(block, n) ==
    [i \in 1..n |-> IF i <= Len(block) THEN block[i] ELSE UNKNOWN]

\* The block old, if there is one, becomes block b, of n elements.
Moved(old, b, n) ==
    [c \in (DOMAIN heap \ {old}) \cup {b} |->
        IF c = b THEN Resized(IF old = NULL THEN <<>> ELSE heap[old], n)
                 ELSE heap[c]]

\* pool_allocate when old is NULL, and pool_reallocate: the ways to succeed.
Obtained(old, size) ==
    IF size \notin 1..MEMORY THEN {}
    ELSE {[heap |-> Moved(old, b, size \div ELEMENT), ptr |-> b] :
             b \in Block \ (DOMAIN heap \ {old})}

-------------------------------------------------------------------------------
(* The functions of the array. *)

\* What a refusal leaves of the array.  A slip: the capacity was raised first.
RefusedEarly(new_cap) == [arr EXCEPT !.capacity = new_cap]
Refused(new_cap) == arr

\* The block to grow.  A slip: always a new one.
OldNever == NULL
Old == arr.data

\* prefix_reserve: whether it succeeds, and what it leaves.
Reserved(new_cap) ==
    LET size == new_cap * ELEMENT IN
    IF new_cap <= arr.capacity
    THEN {[ok |-> TRUE, heap |-> heap, arr |-> arr]}
    ELSE {[ok |-> FALSE, heap |-> heap, arr |-> Refused(new_cap)]}
         \cup IF size >= WRAP THEN {}
         ELSE {[ok |-> TRUE, heap |-> o.heap,
                arr |-> [arr EXCEPT !.data = o.ptr, !.capacity = new_cap]] :
                  o \in Obtained(Old, size)}

\* The elements of src are stored behind the last one of the array r.arr.
Store(r, src) == LET n == r.arr.length IN
    /\ heap' = [r.heap EXCEPT ![r.arr.data] =
           [i \in DOMAIN @ |-> IF i \in n+1 .. n+Len(src) THEN src[i-n] ELSE @[i]]]
    /\ arr' = [r.arr EXCEPT !.length = (n + Len(src)) % WRAP]

\* A slip: one more at a time.
DoubledNot(cap) == cap + 1
Doubled(cap) == (cap * 2) % WRAP

\* Where the growth starts.  A slip: nothing for an empty array.
FromCapacity(cap) == cap
FromFirst(cap) == IF cap = 0 THEN FIRST ELSE cap

GrowAndStore(new_cap, src) == \E r \in Reserved(new_cap) :
    /\ IF r.ok THEN Store(r, src) ELSE heap' = r.heap /\ arr' = r.arr
    /\ grown' = IF r.ok THEN grown + 1 ELSE grown

Push(v) ==
    /\ call = IDLE
    /\ IF arr.length < arr.capacity
       THEN Store([heap |-> heap, arr |-> arr], <<v>>) /\ UNCHANGED grown
       ELSE GrowAndStore(IF arr.capacity = 0 THEN FIRST
                                             ELSE Doubled(arr.capacity), <<v>>)
    /\ UNCHANGED call

Reserve(new_cap) ==
    /\ call = IDLE
    /\ \E r \in Reserved(new_cap) : heap' = r.heap /\ arr' = r.arr
    /\ UNCHANGED <<call, grown>>

\* A slip: the sum is not checked.
WrapsNever(src) == FALSE
Wraps(src) == (arr.length + Len(src)) % WRAP < arr.length
Required(src) == (arr.length + Len(src)) % WRAP

AppendBulk(src) ==
    /\ call = IDLE
    /\ IF src = <<>> \/ Wraps(src) THEN UNCHANGED vars
       ELSE IF Required(src) > arr.capacity
       THEN /\ call' = [src |-> src, new_cap |-> FromFirst(arr.capacity)]
            /\ UNCHANGED <<heap, arr, grown>>
       ELSE Store([heap |-> heap, arr |-> arr], src) /\ UNCHANGED <<call, grown>>

\* A turn of the loop of append_bulk, and what follows the loop.
Double == /\ call # IDLE /\ call.new_cap < Required(call.src)
          /\ call' = [call EXCEPT !.new_cap = Doubled(call.new_cap)]
          /\ UNCHANGED <<heap, arr, grown>>

AppendGrown == /\ call # IDLE /\ call.new_cap >= Required(call.src)
               /\ GrowAndStore(call.new_cap, call.src)
               /\ call' = IDLE

Clear == /\ call = IDLE
         /\ arr' = [arr EXCEPT !.length = 0]
         /\ UNCHANGED <<heap, call, grown>>

\* A slip: data is not reset.
DestroyedNot == [arr EXCEPT !.length = 0, !.capacity = 0]
Destroyed == Empty

Destroy == /\ call = IDLE
           /\ heap' = [b \in DOMAIN heap \ {arr.data} |-> heap[b]]
           /\ arr' = Destroyed /\ grown' = 0
           /\ UNCHANGED call

Next == \/ \E v \in Value : Push(v)
        \/ \E new_cap \in Wanted : Reserve(new_cap)
        \/ \E src \in Source : AppendBulk(src)
        \/ Double \/ AppendGrown
        \/ Clear \/ Destroy

\* A call that was made goes on: nothing in it waits.
Fairness == WF_vars(Double) /\ WF_vars(AppendGrown)

Spec == Init /\ [][Next]_vars /\ Fairness

-------------------------------------------------------------------------------
(* Properties *)

\* Type invariant: data is a block of the pool that is in use, or NULL.
TypeOK ==
    /\ DOMAIN heap \subseteq Block
    /\ \A b \in DOMAIN heap : heap[b] \in Seq(Value \cup {UNKNOWN})
    /\ arr \in [data : DOMAIN heap \cup {NULL}, length : 0 .. WRAP-1,
                capacity : 0 .. WRAP-1]
    /\ call \in [src : Source \cup {<<>>}, new_cap : 0 .. WRAP-1]
    /\ grown \in Nat

\* The elements and the room behind them lie in the block: a reserve that is
\* refused, and one whose size in bytes would wrap, leave a capacity that a
\* later push may rely on.
Room == IF arr.data = NULL THEN 0 ELSE Len(heap[arr.data])

StoresInBlock == arr.length <= arr.capacity /\ arr.capacity <= Room

\* The array owns the block of its data and no other: growing, whether the
\* block moves or not, and destruction leave nothing behind.
BlockOwned == DOMAIN heap = {arr.data} \ {NULL}

\* "The slow path is O(log N) total calls over the array's lifetime": each
\* time it succeeds the capacity at least doubles, also after reserves that
\* chose another capacity.
Doublings[n \in Nat] == IF n = 0 THEN 1 ELSE 2 * Doublings[n-1]

AmortizedGrowth == grown > 0 => Doublings[grown] <= arr.capacity

\* The array implements a sequence: elements keep their place and value when
\* the block moves, and a call that fails, or whose sum would wrap, leaves the
\* sequence as it was.
Contract == INSTANCE ArrayContract WITH
    seq <- IF arr.data = NULL THEN <<>> ELSE SubSeq(heap[arr.data], 1, arr.length)

IsSequence == Contract!Spec

\* A call of append_bulk returns if the elements it asks room for are no more
\* than half of what size_t can count: up to there doubling cannot wrap past
\* them.  (Beyond, doubling reaches zero and the loop never ends.)
AppendReturns ==
    (call # IDLE /\ Required(call.src) <= WRAP \div 2) ~> (call = IDLE)
===============================================================================
