SPECIFICATION Spec
CONSTANTS
  Kinds = {"question", "permission"}
  MaxInputs = 2
  MaxKeys = 3
  MaxAsks = 1
INVARIANTS ScreenIsTrue 
PROPERTIES OperationsEnd
CHECK_DEADLOCK FALSE
