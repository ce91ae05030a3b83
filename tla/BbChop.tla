------------------------------- MODULE BbChop -------------------------------
(***************************************************************************)
(* Where the basic blocks of a binary start: new_detect_static_basic_blocks *)
(* of src/cp/xed/xed_bb_chop.cxx.  It collects the bounds of the sections  *)
(* and of the functions in the symbol table, then decodes every section    *)
(* from its first byte to its last and adds, for each instruction that     *)
(* ends a block, the address behind it and the one it branches to.  What   *)
(* cannot be decoded is skipped byte by byte.                              *)
(***************************************************************************)
EXTENDS Xed, SequencesExt

CONSTANTS
  FileSize,       \* bytes of the binary
  AddressSpace,   \* 2^64: addresses are unsigned 64-bit numbers
  JumpLimit,      \* 0x4000000000: branches from here on are not followed
  UInt16,         \* 2^16: the number of symbols is kept in a uint16_t
  Layouts,        \* bound: section tables of the binaries
  Symbol,         \* bound: entries of their symbol tables
  MaxSymbols      \* bound: length of a symbol table

INIT == 0
PLT == 1
TEXT == 2
FINI == 3
NUMBER_OF_SECTIONS == 4
Sections == 0..(NUMBER_OF_SECTIONS - 1)

Offsets == 0..(FileSize - 1)
Address == 0..(AddressSpace - 1)

(***************************************************************************)
(* Sections lie in the file.  One that a binary does not have is left with *)
(* base and size zero.                                                     *)
(***************************************************************************)
Layout ==
  {layout \in [Sections -> [base : Nat, size : Nat]] :
     \A s \in Sections : layout[s].base + layout[s].size <= FileSize}

ASSUME SizesAssumption ==
  /\ FileSize \in Nat /\ AddressSpace \in Nat /\ JumpLimit \in Nat
  /\ UInt16 \in Nat \ {0}
  /\ FileSize <= JumpLimit
  /\ FileSize + LONGEST_POSSIBLE_INSTRUCTION < AddressSpace
ASSUME LayoutsAssumption == Layouts \subseteq Layout
ASSUME SymbolAssumption == \A symbol \in Symbol : symbol.value \in Int /\ symbol.size \in Nat

VARIABLES
  sections,      \* input: the section table, get_sections_info
  symtab,        \* input: the symbol table, addresses less binary_base
  code,          \* input: the instruction at each offset
  pc,            \* "sections", "symbols", "decode", "done", or "overrun"
  section,       \* the section being decoded
  decode_window_start,
  addrs,         \* the addresses found
  swept          \* history: where decoding was tried, by section

inputs == <<sections, symtab, code>>
vars == <<inputs, pc, section, decode_window_start, addrs, swept>>

SectionEnd(s) == sections[s].base + sections[s].size

(***************************************************************************)
(* The sections whose bounds are inserted: the loop stops before FINI.     *)
(***************************************************************************)
BoundedSections == INIT..(FINI - 1)

SectionBounds ==
  {sections[s].base : s \in BoundedSections} \cup {SectionEnd(s) : s \in BoundedSections}

(***************************************************************************)
(* The entries get_symbols_info keeps: functions that the binary defines   *)
(* and that have a size.                                                   *)
(***************************************************************************)
Kept == {i \in DOMAIN symtab :
           /\ symtab[i].type = "FUNC"
           /\ symtab[i].shndx \notin {"UNDEF", "ABS"}
           /\ symtab[i].size # 0}

(***************************************************************************)
(* Addresses are computed in unsigned 64-bit arithmetic.                   *)
(***************************************************************************)
Unsigned(number) == number % AddressSpace

SymbolBounds ==
  {Unsigned(symtab[i].value) : i \in Kept}
    \cup {Unsigned(symtab[i].value + symtab[i].size) : i \in Kept}

(***************************************************************************)
(* How far the window moves: over the instruction, or one byte.  Slip: a   *)
(* window that holds no instruction is skipped altogether.                 *)
(***************************************************************************)
AdvanceByWindow(bytes) ==
  IF decodes(bytes, LONGEST_POSSIBLE_INSTRUCTION + 1) THEN bytes.length
                                                      ELSE LONGEST_POSSIBLE_INSTRUCTION

Advance(bytes) ==
  IF decodes(bytes, LONGEST_POSSIBLE_INSTRUCTION + 1) THEN bytes.length ELSE 1

(***************************************************************************)
(* Where an instruction at start branches to.  Displacements count from    *)
(* its end; zero stands for an unknown target.  Slip: from its start.      *)
(***************************************************************************)
TargetFromStart(start, instruction) ==
  {t \in {Unsigned(instruction.displacement + start)} :
     instruction.displacement # 0 /\ t # 0 /\ t < JumpLimit}

Target(start, instruction) ==
  {t \in {Unsigned(instruction.displacement + start + instruction.length)} :
     instruction.displacement # 0 /\ t # 0 /\ t < JumpLimit}

StartsAfter(start, bytes) ==
  IF /\ decodes(bytes, LONGEST_POSSIBLE_INSTRUCTION + 1)
     /\ terminates_bb(bytes)
  THEN {start + bytes.length} \cup Target(start, bytes)
  ELSE {}

-----------------------------------------------------------------------------
Init ==
  /\ sections \in Layouts
  /\ symtab \in BoundedSeq(Symbol, MaxSymbols)
  /\ code \in [Offsets -> Instructions \cup {Undecodable}]
  /\ pc = "sections"
  /\ section = 0
  /\ decode_window_start = 0
  /\ addrs = {}
  /\ swept = {}

InsertSections ==
  /\ pc = "sections"
  /\ pc' = "symbols"
  /\ addrs' = addrs \cup SectionBounds
  /\ UNCHANGED <<inputs, section, decode_window_start, swept>>

(***************************************************************************)
(* The vectors for the symbols are as long as the uint16_t says, but are   *)
(* filled for the whole table: entries past their end overrun the heap,    *)
(* and nothing is said of what follows.                                    *)
(***************************************************************************)
number_of_symbols == Len(symtab) % UInt16

InsertSymbols ==
  /\ pc = "symbols"
  /\ Kept \subseteq 1..number_of_symbols
  /\ pc' = "decode"
  /\ section' = 0
  /\ decode_window_start' = sections[0].base
  /\ addrs' = addrs \cup SymbolBounds
  /\ UNCHANGED <<inputs, swept>>

OverrunSymbols ==
  /\ pc = "symbols"
  /\ ~(Kept \subseteq 1..number_of_symbols)
  /\ pc' = "overrun"
  /\ UNCHANGED <<inputs, section, decode_window_start, addrs, swept>>

Decode ==
  /\ pc = "decode"
  /\ decode_window_start < SectionEnd(section)
  /\ LET bytes == code[decode_window_start]
     IN  /\ decode_window_start' = decode_window_start + Advance(bytes)
         /\ addrs' = addrs \cup StartsAfter(decode_window_start, bytes)
  /\ swept' = swept \cup {<<section, decode_window_start>>}
  /\ UNCHANGED <<inputs, pc, section>>

NextSection ==
  /\ pc = "decode"
  /\ decode_window_start >= SectionEnd(section)
  /\ section + 1 \in Sections
  /\ section' = section + 1
  /\ decode_window_start' = sections[section + 1].base
  /\ UNCHANGED <<inputs, pc, addrs, swept>>

Return ==
  /\ pc = "decode"
  /\ decode_window_start >= SectionEnd(section)
  /\ section + 1 \notin Sections
  /\ pc' = "done"
  /\ UNCHANGED <<inputs, section, decode_window_start, addrs, swept>>

Next == \/ InsertSections \/ InsertSymbols \/ OverrunSymbols
        \/ Decode \/ NextSection \/ Return

Spec == Init /\ [][Next]_vars
-----------------------------------------------------------------------------
(***************************************************************************)
(* What is returned are addresses: unsigned 64-bit numbers.                *)
(***************************************************************************)
TypeOK ==
  /\ sections \in Layout
  /\ symtab \in Seq(Symbol)
  /\ code \in [Offsets -> Instructions \cup {Undecodable}]
  /\ pc \in {"sections", "symbols", "decode", "done", "overrun"}
  /\ section \in Sections
  /\ decode_window_start \in 0..(FileSize + LONGEST_POSSIBLE_INSTRUCTION)
  /\ addrs \subseteq Address
  /\ swept \subseteq Sections \X Offsets

(***************************************************************************)
(* Every byte of a section that is done with belongs to one instruction,   *)
(* or was skipped as one byte that is none: the sweep leaves no gap after  *)
(* data in the code, and never decodes a byte twice                        *)
(* (xed_bb_chop.cxx:252-294).                                              *)
(***************************************************************************)
Extent(offset) == IF code[offset] = Undecodable THEN 1 ELSE code[offset].length

SweptIn(s) == {offset \in Offsets : <<s, offset>> \in swept}

Passed(s) == pc = "done" \/ (pc = "decode" /\ s < section)

SectionsTiled ==
  \A s \in Sections : Passed(s) =>
    /\ \A x \in sections[s].base..(SectionEnd(s) - 1) :
         \E p \in SweptIn(s) : p <= x /\ x < p + Extent(p)
    /\ \A p, q \in SweptIn(s) : p < q => p + Extent(p) <= q

(***************************************************************************)
(* The addresses cut the code into basic blocks: between two neighbours no *)
(* instruction ends a block, but for the last one, and no instruction      *)
(* anywhere in the code branches to the inside (the comment at             *)
(* xed_bb_chop.cxx:186-194 and the use made of the result).                *)
(***************************************************************************)
Neighbours ==
  {pair \in (addrs \cap 0..FileSize) \X (addrs \cap 0..FileSize) :
     pair[1] < pair[2] /\ \A c \in addrs : ~(pair[1] < c /\ c < pair[2])}

Branches ==
  {offset \in Offsets :
     /\ \E s \in Sections : <<s, offset>> \in swept
     /\ code[offset] # Undecodable /\ terminates_bb(code[offset])}

BranchesTo(offset, address) ==
  /\ code[offset].displacement # 0
  /\ address = (offset + code[offset].length + code[offset].displacement) % AddressSpace

BlocksAreBasic ==
  pc = "done" =>
    \A pair \in Neighbours : \A p \in Branches :
      /\ ~(pair[1] <= p /\ p + code[p].length < pair[2])
      /\ \A inside \in (pair[1] + 1)..(pair[2] - 1) : ~BranchesTo(p, inside)

=============================================================================
