--------------------------- MODULE MCPivotCombos ---------------------------
(***************************************************************************)
(* Two files, the first with two columns: items can be chosen, greyed and  *)
(* moved by a file opened later.  Two levels show a box being enabled by   *)
(* the one above it, three boxes for displayed values a box removed        *)
(* together with one behind it.  Seven clicks are enough to open a file,   *)
(* choose in three boxes, and undo, clear, transpose or choose again.      *)
(***************************************************************************)
EXTENDS PivotCombos

CONSTANTS f, g, x, y, z

MCColumnsOf == (f :> <<x, z>>) @@ (g :> <<y>>)
=============================================================================
