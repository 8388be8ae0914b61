SPECIFICATION Spec
CONSTANTS
  Programs <- GlobalVariable
  FirstCharacters <- MCFirstCharacters
  ExternResult = 5
  MaxStack = 60
INVARIANT GlobalsAreShared
\* the compiled program returns from main
CHECK_DEADLOCK FALSE
