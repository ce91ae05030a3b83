-------------------------------- MODULE Xed --------------------------------
(***************************************************************************)
(* What the disassemblers of src/cp/xed ask of the XED library.  A binary  *)
(* is a function, code, from its offsets to the instruction whose bytes    *)
(* begin there, or to Undecodable.  No instruction is a prefix of another, *)
(* so that the decoder fails on every window that is too short.            *)
(***************************************************************************)
EXTENDS Integers

CONSTANTS
  Instructions,                   \* the instructions of the binaries
  Undecodable,                    \* bytes that are no instruction
  LONGEST_POSSIBLE_INSTRUCTION    \* 15 bytes

Category == {"CALL", "RET", "SYSCALL", "SYSRET", "SYSTEM", "UNCOND_BR",
             "COND_BR", "OTHER"}

(***************************************************************************)
(* An instruction that is no direct branch has displacement 0.             *)
(***************************************************************************)
ASSUME InstructionsAssumption ==
  /\ LONGEST_POSSIBLE_INSTRUCTION \in Nat
  /\ \A instruction \in Instructions :
       /\ instruction.length \in 1..LONGEST_POSSIBLE_INSTRUCTION
       /\ instruction.category \in Category
       /\ instruction.displacement \in Int
ASSUME UndecodableAssumption == Undecodable \notin Instructions

(***************************************************************************)
(* XED_ERROR_NONE, for a window of so many bytes.                          *)
(***************************************************************************)
decodes(bytes, window) ==
  bytes \in Instructions /\ bytes.length <= window

terminates_bb(instruction) ==
  instruction.category \in {"CALL", "RET", "SYSCALL", "SYSRET", "SYSTEM",
                            "UNCOND_BR", "COND_BR"}
=============================================================================
