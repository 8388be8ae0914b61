SPECIFICATION Spec
CONSTANTS
  Sources = {"a", "b"}
  Names = {"n"}
  MaxArgs = 7
  MaxRuns = 2
INVARIANTS
  TypeOK
  RejectedLeavesFiles
  FilesOfThisSource
  ExecutableOfThisSource
  OnlyProductsChange
\* users stop running commands
CHECK_DEADLOCK FALSE
