CONSTANTS
  MaxProcs = 2
  MaxDaemons = 1
  MaxPresses = 2
  MaxFaults = 0
SPECIFICATION Spec
PROPERTY HeldInputKept
CHECK_DEADLOCK FALSE
