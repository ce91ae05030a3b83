------------------------------ MODULE MCInsMix ------------------------------
(***************************************************************************)
(* Two threads and three basic blocks: two of routines 1 and 2, which have *)
(* the same address, one of code without a symbol, which is routine 0.     *)
(* One instruction also counts as a stack write.                           *)
(***************************************************************************)
EXTENDS InsMix

CONSTANTS t1, t2, c1, c2, c3, add, push, stack

MCIns == (c1 :> <<[opcode |-> add, special |-> {}],
                  [opcode |-> push, special |-> {stack}]>>)
           @@ (c2 :> <<[opcode |-> add, special |-> {}]>>)
           @@ (c3 :> <<[opcode |-> push, special |-> {stack}]>>)
MCRtnOf == (c1 :> 1) @@ (c2 :> 2) @@ (c3 :> 0)
MCAddress == (0 :> 0) @@ (1 :> 5) @@ (2 :> 5)
MCSymmetry == Permutations({t1, t2})
=============================================================================
