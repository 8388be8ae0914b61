SPECIFICATION Spec
CONSTANTS
  Programs <- GoodPrograms
  FirstCharacters <- MCFirstCharacters
  ExternResult = 5
  MaxStack = 60
INVARIANTS
  ObjTypeOK
  SlotsDistinct
  SlotsInFrame
  StackArgumentsRemoved
  ReturnsToTheirMethod
  TypeOK
  SameControl
  SlotsHoldVariables
  ArgumentsInPlace
  StackBalanced
  CallsAligned
PROPERTY Terminates
\* the compiled program returns from main
CHECK_DEADLOCK FALSE
