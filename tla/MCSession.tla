----------------------------- MODULE MCSession -----------------------------
(***************************************************************************)
(* Two data files that share a column.  What may be chosen: one level on   *)
(* each axis; two levels of rows, in both files; two displayed values over *)
(* three levels of columns; and no rows.  Nothing is chosen when the       *)
(* program starts.  One filter for each file, one of them with a typing    *)
(* error.                                                                  *)
(***************************************************************************)
EXTENDS Session

CONSTANTS p, q, nameP, nameQ, f, g

MCBasename == (p :> nameP) @@ (q :> nameQ)
MCColumnsOf == [path \in Paths |-> {"bb"}]
MCNameOf == (f :> nameP) @@ (g :> nameQ)
MCSelections ==
  {[Nothing EXCEPT !.row = <<p>>, !.column = <<p>>, !.displayed = {p}],
   [Nothing EXCEPT !.row = <<p, q>>, !.column = <<p>>, !.displayed = {p}],
   [Nothing EXCEPT !.row = <<p>>, !.column = <<p, p, p>>, !.displayed = {p}, !.more = {q}],
   [Nothing EXCEPT !.column = <<q>>, !.displayed = {q}]}
=============================================================================
