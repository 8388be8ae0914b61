SPECIFICATION Spec
CONSTANTS
  n1 = n1
  n2 = n2
  Name = {n1, n2}
  MaxScopes = 4
SYMMETRY Symmetry
INVARIANTS
  TypeOK
  ScopeInv
  DistinctNames
  ArgsOfTheirMethod
PROPERTIES
  ClosedScopesStayClosed
  LexicalVisibility
\* a compilation ends, accepted or rejected
CHECK_DEADLOCK FALSE
