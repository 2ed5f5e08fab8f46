CONSTANTS
  phone = phone
  web = web
  order = order
  theme = theme
  Devices <- MCDevices
  Keys <- MCKeys
  MaxRetries = 2
  MaxChanges = 3
  MaxDisturbances = 0
SPECIFICATION Spec
PROPERTY KeepsOthersChanges
CHECK_DEADLOCK FALSE
