SPECIFICATION Spec
CONSTANTS
  t1 = t1
  t2 = t2
  c1 = c1
  c2 = c2
  c3 = c3
  add = add
  push = push
  stack = stack
  Threads = {t1, t2}
  Pin = Pin
  Code = {c1, c2, c3}
  Opcodes = {add, push}
  Special = {stack}
  Total = Total
  Ins <- MCIns
  RtnOf <- MCRtnOf
  Address <- MCAddress
  MaxBlocks = 3
  MaxWork = 4
SYMMETRY MCSymmetry
INVARIANTS
  TypeOK
  NeverOvercounts
  PrivateBlocksExact
  ProfileIsSum
  SectionsAddUp
\* The program ends.
CHECK_DEADLOCK FALSE
