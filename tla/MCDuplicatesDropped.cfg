SPECIFICATION DupSpec
CONSTANTS
  Scans <- SomeScans
CHECK_DEADLOCK FALSE
INVARIANT NoPairIsDropped
