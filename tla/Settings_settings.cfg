CONSTANTS
  phone = phone
  web = web
  order = order
  theme = theme
  Devices <- MCDevices
  Keys <- MCKeys
  MaxRetries = 2
  MaxChanges = 2
  MaxDisturbances = 1
SPECIFICATION FairSpec
INVARIANTS TypeOK NothingDropped NothingLeftAtRest
PROPERTIES ChangesOnlyToOwnValues ComesToRest
CHECK_DEADLOCK FALSE
