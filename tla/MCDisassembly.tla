--------------------------- MODULE MCDisassembly ---------------------------
(* Values of the constants of Disassembly for TLC.                         *)
EXTENDS Disassembly

Plain(n) == [length |-> n, category |-> "OTHER", displacement |-> 0]
MCInstructions ==
  {Plain(1), Plain(2), [length |-> 1, category |-> "RET", displacement |-> 0]}

\* The first byte is the header of the binary.
MCMapped == 1..(FileSize - 1)

\* A range that a chunk holds and one it does not, an empty range, one that
\* runs backwards, one outside the sections.
Ranges ==
  {[offset |-> 1, to |-> 3], [offset |-> 2, to |-> 5], [offset |-> 3, to |-> 3],
   [offset |-> 3, to |-> 2], [offset |-> 0, to |-> 1]}
Unbounded == [offset : Offsets, to : {None}]

MCRequests ==
  {<<r>> : r \in Ranges} \cup {<<q, r>> : q, r \in Ranges} \cup {<<r>> : r \in Unbounded}
=============================================================================
