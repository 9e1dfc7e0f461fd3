---------------------------- MODULE ArrayContract -----------------------------
(***************************************************************************)
(* What a typed array promises to its caller, wherever its elements lie: a *)
(* sequence that grows at its end by one element or by several, all of     *)
(* them or none, and is emptied at once.                                   *)
(***************************************************************************)
EXTENDS Sequences

CONSTANTS Value,    \* elements
          Source    \* sequences appended at once

VARIABLE seq

Init == seq = <<>>

Push(v) == seq' = Append(seq, v)
AppendBulk(src) == seq' = seq \o src
Empty == seq' = <<>>

Next == \/ \E v \in Value : Push(v)
        \/ \E src \in Source : AppendBulk(src)
        \/ Empty

Spec == Init /\ [][Next]_seq
===============================================================================
