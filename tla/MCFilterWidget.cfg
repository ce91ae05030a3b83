SPECIFICATION Spec
CONSTANTS
  p1 = p1
  p2 = p2
  n1 = n1
  n2 = n2
  Paths = {p1, p2}
  Names = {n1, n2}
  Conditions = {"lt"}
  MaxFilters = 4
  Basename <- MCBasename
INVARIANTS
  TypeOK
  RowsMirrorFilters
  AppliedIsShown
PROPERTY
  RemoveTakesItsOwnRow
  ImplementsFilterList
\* The widget may stop for good once MaxFilters filters were made and removed.
CHECK_DEADLOCK FALSE
