SPECIFICATION Spec
CONSTANTS
  Threshold = 1
  CacheTTL = 1
  StoppedTTL = 2
  TimeoutAfter = 3
  Stops = {"end", "archive"}
  MaxClock = 5
  MaxUnderWay = 1
INVARIANTS TypeOK StoppedNotCached
PROPERTIES TimedOutOnlyWhenSilent NothingCollectedOnceStopped
