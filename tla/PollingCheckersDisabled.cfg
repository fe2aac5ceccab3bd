CONSTANTS
  Checks = {k}
  Loop = Loop
  MaxLate = 1
SPECIFICATION Spec
INVARIANTS
  DisabledKeepsStatus
CHECK_DEADLOCK FALSE
