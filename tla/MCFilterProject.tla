-------------------------- MODULE MCFilterProject --------------------------
(***************************************************************************)
(* Two paths, so that two filters may look alike or not, and one condition *)
(* are enough: what a load can lose or mix up are numbers, rows and flags. *)
(* With Slots = 1 any two numbers share a slot and the dictionary may list *)
(* them in either order, as it may with 0 and 8 in the 8 slots of CPython. *)
(***************************************************************************)
EXTENDS FilterProject

CONSTANTS p1, p2, n1, n2

MCBasename == (p1 :> n1) @@ (p2 :> n2)
=============================================================================
