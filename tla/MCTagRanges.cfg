SPECIFICATION Spec
CONSTANTS
  Addresses = {1, 2, 3, 4, 5}
  MaxRanges = 3
  MaxSamples = 3
INVARIANTS
  RangesApart
  AddressesKept
  TotalIsSum
\* The computation ends.
CHECK_DEADLOCK FALSE
