CONSTANTS
  Checks = {k}
  Loop = Loop
  MaxLate = 1
SPECIFICATION Spec
INVARIANTS
  ClosedClosesDB
CHECK_DEADLOCK FALSE
