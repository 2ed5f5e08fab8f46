CONSTANTS
  MaxProcs = 3
  MaxDaemons = 2
  MaxPresses = 2
  MaxFaults = 1
SPECIFICATION Spec
INVARIANTS TypeOK OneOwner
PROPERTIES StoppedStays ComesBack HandoverEnds
CHECK_DEADLOCK FALSE
