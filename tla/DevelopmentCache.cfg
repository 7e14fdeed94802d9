SPECIFICATION DevelopmentSpec
CONSTANTS
  None = None
  Native = Native
  Version = {0, 1}
  MaxEdits = 2
  MaxStarts = 2
  MaxFailures = 1
PROPERTIES CacheOnlySavesWork
CHECK_DEADLOCK FALSE
