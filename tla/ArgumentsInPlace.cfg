SPECIFICATION Spec
CONSTANTS
  Programs <- EightArguments
  FirstCharacters <- MCFirstCharacters
  ExternResult = 5
  MaxStack = 60
INVARIANT ArgumentsInPlace
\* the compiled program returns from main
CHECK_DEADLOCK FALSE
