-------------------------------- MODULE MCPool --------------------------------
(***************************************************************************)
(* Small geometries of the pool, with pages of four bytes: classes of half *)
(* a page, of a page and of two pages.                                     *)
(***************************************************************************)
EXTENDS PoolProperties
===============================================================================
