------------------------------ MODULE MCBbChop ------------------------------
(* Values of the constants of BbChop for TLC.                              *)
EXTENDS BbChop

Plain(n) == [length |-> n, category |-> "OTHER", displacement |-> 0]
MCInstructions ==
  {Plain(1), Plain(2), [length |-> 1, category |-> "RET", displacement |-> 0],
   [length |-> 2, category |-> "COND_BR", displacement |-> -3],
   [length |-> 2, category |-> "UNCOND_BR", displacement |-> 1]}

At(base, size) == [base |-> base, size |-> size]
\* Sections that touch, .init missing; and .fini aligned, .plt missing.
MCLayouts ==
  {(INIT :> At(0, 0)) @@ (PLT :> At(1, 1)) @@ (TEXT :> At(2, 2)) @@ (FINI :> At(4, 1)),
   (INIT :> At(0, 1)) @@ (PLT :> At(0, 0)) @@ (TEXT :> At(1, 2)) @@ (FINI :> At(4, 1))}

\* A function, one below the base of the binary, and one defined elsewhere.
MCSymbol ==
  {[type |-> "FUNC", shndx |-> "SECTION", value |-> 2, size |-> 1],
   [type |-> "FUNC", shndx |-> "SECTION", value |-> -1, size |-> 1],
   [type |-> "FUNC", shndx |-> "UNDEF", value |-> 3, size |-> 1]}
=============================================================================
