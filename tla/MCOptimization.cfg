SPECIFICATION MCSpec
CONSTANTS
  Optimizations = TRUE
  MaxArgs = 2
  MaxPending = 3
  MaxDepth = 2
  MaxCode = 8
INVARIANTS
  OptTypeOK
  TempsStayInTheirBlock
  CountsExact
  SameValues
  AsFewNamesAsLive
PROPERTY PassEnds
\* the pass ends, and so does a walk that MaxCode cuts
CHECK_DEADLOCK FALSE
