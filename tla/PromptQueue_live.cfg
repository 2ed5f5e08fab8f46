CONSTANTS
  p = p
  c = c
  r = r
  s = s
  NoKey = NoKey
  Own <- MCPlain
  Clears = {}
  Reports = {}
  Shared <- MCShared
  SharedRuntime = TRUE
  MaxVersion = 1
  MaxFaults = 2
  MaxPresses = 1
SPECIFICATION FairSpec
PROPERTIES LeavesQueue Settles
CHECK_DEADLOCK FALSE
