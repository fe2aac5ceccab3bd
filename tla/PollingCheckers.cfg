CONSTANTS
  Checks = {k}
  Loop = Loop
  MaxLate = 1
SPECIFICATION FairSpec
INVARIANTS
  TypeOK
  ReaderKnows
  LoopEndsFirst
PROPERTIES
  ReportsChecks
  DisableHaltsChecks
  CloseReturns
  NothingLeft
  ImplementsContract
CHECK_DEADLOCK FALSE
