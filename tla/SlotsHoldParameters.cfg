SPECIFICATION Spec
CONSTANTS
  Programs <- UnusedParameters
  FirstCharacters <- MCFirstCharacters
  ExternResult = 5
  MaxStack = 60
INVARIANT SlotsHoldVariables
\* the compiled program returns from main
CHECK_DEADLOCK FALSE
