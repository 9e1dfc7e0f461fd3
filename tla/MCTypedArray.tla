----------------------------- MODULE MCTypedArray -----------------------------
(***************************************************************************)
(* A small array: size_t of five bits, elements of two bytes.         *)
(***************************************************************************)
EXTENDS TypedArray

\* Nothing, what fits, what the pool refuses, what makes doubling wrap, and
\* what makes the sum of the lengths wrap.
Sources == {<<>>, <<1, 2>>, <<2, 1, 1>>}
             \cup {[i \in 1..n |-> 1] : n \in {7, 17, 31}}
===============================================================================
