CONSTANTS
  p = p
  c = c
  r = r
  s = s
  NoKey = NoKey
  Own <- MCOwn
  Clears <- MCClears
  Reports <- MCReports
  Shared <- MCShared
  SharedRuntime = FALSE
  MaxVersion = 1
  MaxFaults = 1
  MaxPresses = 1
SPECIFICATION Spec
INVARIANTS TypeOK AtMostOnce Accounted OutdatedNeverRuns
PROPERTIES SharedRunsAlone KeepsPromise
CHECK_DEADLOCK FALSE
