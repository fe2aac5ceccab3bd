CONSTANTS
  Callers = {a}
  Checks = {k}
  Loop = Loop
SPECIFICATION Spec
INVARIANTS
  NoPanic
CHECK_DEADLOCK FALSE
