CONSTANTS
  N = 1
  Statuses <- PassOrFail
  Capacity <- OneEach
  Probes = {p}
  None = None
SPECIFICATION FairSpec
PROPERTIES
  AllExit
  ProbeServed
