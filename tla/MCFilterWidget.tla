--------------------------- MODULE MCFilterWidget ---------------------------
(***************************************************************************)
(* Two open files; MaxFilters = 4 lets rows above and below the removed    *)
(* one exist, and a row be removed after rows have already moved.          *)
(***************************************************************************)
EXTENDS FilterWidget

CONSTANTS p1, p2, n1, n2

MCBasename == (p1 :> n1) @@ (p2 :> n2)
=============================================================================
