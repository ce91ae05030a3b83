SPECIFICATION Spec
CONSTANTS
  p = p
  q = q
  nameP = nameP
  nameQ = nameQ
  f = f
  g = g
  Paths = {p, q}
  Names = {nameP, nameQ}
  Filters = {f, g}
  Unreadable = {g}
  NoTable = NoTable
  NoProject = NoProject
  Truncated = Truncated
  MaxSteps = 10
  Basename <- MCBasename
  ColumnsOf <- MCColumnsOf
  NameOf <- MCNameOf
  Selections <- MCSelections
INVARIANTS
  TypeOK
  FilesAgree
  ShownIsFiltered
  TableMatchesBoxes
PROPERTIES
  ProjectIntact
\* The bound on the steps.
CHECK_DEADLOCK FALSE
