CONSTANTS
  Callers = {a}
  Checks = {k}
  Loop = Loop
SPECIFICATION FairSpec
INVARIANTS
  TypeOK
PROPERTIES
  WarningIsTemporary
  CallsReturn
  CloseEndsStream
  ImplementsContract
CHECK_DEADLOCK FALSE
