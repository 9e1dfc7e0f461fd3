------------------------------- MODULE MCArena --------------------------------
(***************************************************************************)
(* Small arenas, with pages of four units and headers of one: a unit       *)
(* stands for the 64 bytes of a header.                                    *)
(***************************************************************************)
EXTENDS ArenaProperties
===============================================================================
