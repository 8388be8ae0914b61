SPECIFICATION Spec
CONSTANTS
  Optimizations = TRUE
  MaxDepth = 3
INVARIANTS
  TypeOK
  FlagMeansReturn
  BodyReturnIsFound
PROPERTY ReturnsOutsideLoops
\* a compilation ends, accepted or rejected
CHECK_DEADLOCK FALSE
