SPECIFICATION Spec
CONSTANTS
  MAX_THREADS = 2
  MAX_IMAGES = 3
  Blocks = {b1, b2}
  NoBlock = NoBlock
  MaxLength = 2
  MaxLives = 2
INVARIANTS
  TraceIsExecution
  PrivateLinesWhole
  SummaryAgreesWithTrace
PROPERTY
  PrivateFiles
  ImplementsThreadTraces
\* The tool stops when an assertion failed, or when every bound is reached.
CHECK_DEADLOCK FALSE
