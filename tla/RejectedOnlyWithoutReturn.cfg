SPECIFICATION Spec
CONSTANTS
  Optimizations = FALSE
  MaxDepth = 3
INVARIANT RejectedOnlyWithoutReturn
\* a compilation ends, accepted or rejected
CHECK_DEADLOCK FALSE
