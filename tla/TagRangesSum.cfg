SPECIFICATION Spec
CONSTANTS
  Addresses = {1, 2, 3, 4, 5}
  MaxRanges = 3
  MaxSamples = 2
INVARIANT SumsWithinRanges
\* The computation ends.
CHECK_DEADLOCK FALSE
