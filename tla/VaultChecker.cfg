CONSTANT
  MaxEnables = 1
SPECIFICATION FairSpec
INVARIANTS
  EnabledHasLoop
PROPERTIES
  ReportsChecks
  LoopsEnd
  ImplementsContract
CHECK_DEADLOCK FALSE
