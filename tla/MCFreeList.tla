------------------------------ MODULE MCFreeList ------------------------------
(* Five blocks against a magazine of two, so that the chain holds up to     *)
(* three blocks, pushed one by one or carved at once, and blocks move       *)
(* between both levels in every order.                                      *)
EXTENDS FreeListSpec, TLC

BlockSymmetry == Permutations(Block)
===============================================================================
