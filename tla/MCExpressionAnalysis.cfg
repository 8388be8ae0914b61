SPECIFICATION Spec
CONSTANTS
  Optimizations = TRUE
  HalfInt = 4
  HalfWord = 32
  Trap = Trap
  Unknown = Unknown
  Inputs <- MCInputs
  Addresses <- MCAddresses
  MaxPending = 2
  MaxArgs = 2
INVARIANTS
  TypeOK
  FoldedConditionDecides
PROPERTY KeepsMeaning
\* the analysis of a statement ends
CHECK_DEADLOCK FALSE
