SPECIFICATION Spec
CONSTANTS
  Instructions <- MCInstructions
  Undecodable = Undecodable
  LONGEST_POSSIBLE_INSTRUCTION = 2
  FileSize = 6
  CHUNK_SIZE = 2
  MaxString = 4
  None = None
  Mapped <- MCMapped
  Requests <- MCRequests
INVARIANTS
  RowsAreCode
  StopsAtNoInstruction
  RaisesOnlyIf
  OneBlock
PROPERTIES
  Terminates
  StepsDescend
\* The computation ends.
CHECK_DEADLOCK FALSE
