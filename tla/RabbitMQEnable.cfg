CONSTANTS
  Checks = {k}
  Loop = Loop
  MaxLate = 1
SPECIFICATION Spec
PROPERTIES
  EnableReturns
CHECK_DEADLOCK FALSE
