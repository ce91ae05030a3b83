SPECIFICATION Spec
CONSTANTS
  Instructions <- MCInstructions
  Undecodable = Undecodable
  LONGEST_POSSIBLE_INSTRUCTION = 2
  FileSize = 5
  AddressSpace = 16
  JumpLimit = 8
  UInt16 = 2
  Layouts <- MCLayouts
  Symbol <- MCSymbol
  MaxSymbols = 2
INVARIANTS
  SectionsTiled
  BlocksAreBasic
\* The computation ends.
CHECK_DEADLOCK FALSE
