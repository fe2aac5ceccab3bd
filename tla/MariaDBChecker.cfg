SPECIFICATION FairSpec
INVARIANTS
  StopsBeforeItCloses
PROPERTIES
  CloseReturns
  ImplementsContract
CHECK_DEADLOCK FALSE
