SPECIFICATION ControlSpec
CONSTANTS
  Optimizations = TRUE
  MaxArgs = 0
  MaxPending = 1
  MaxDepth = 3
  MaxCode = 14
INVARIANTS
  TypeOK
  JumpsResolve
\* the walk ends with the last declaration, or where MaxCode cuts it
CHECK_DEADLOCK FALSE
