SPECIFICATION Spec
CONSTANTS
  Files = {f1, f2}
  Delays = {1}
  MaxWait = 2
  Inotify = FALSE
  Warm = FALSE
  MaxEdits = 1
  MaxFaults = 0
  NoTimer = NoTimer
CHECK_DEADLOCK FALSE
INVARIANT CallsMatchNodes
