SPECIFICATION ProjectSpec
CONSTANTS
  p1 = p1
  p2 = p2
  n1 = n1
  n2 = n2
  Paths = {p1, p2}
  Names = {n1, n2}
  Conditions = {"lt"}
  MaxFilters = 2
  Basename <- MCBasename
  NoProject = NoProject
  Slots = 1
  MaxRows = 3
INVARIANTS
  LookupsSucceed
  CleanSessionMirrors
  RowsBoundInOrder
PROPERTY
  AddNeverOverwrites
