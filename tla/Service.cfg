CONSTANTS
  N = 2
  Statuses <- WarnOrFail
  Capacity <- OneEach
  Probes = {p}
  None = None
SPECIFICATION OpenSpec
INVARIANTS
  TypeOK
  Converged
  StatusExplained
  ReportSound
  ReadyTellsTruth
PROPERTIES
  Converges
