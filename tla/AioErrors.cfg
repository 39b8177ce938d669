SPECIFICATION FairSpec
CONSTANTS
  NumWrites = 2
  NumFlushes = 1
  Length = 3
  ShortWrites = TRUE
  Failures = TRUE
INVARIANTS ThrowsWhenQuiet CompleteIsDurable
PROPERTY Ends
CHECK_DEADLOCK FALSE
