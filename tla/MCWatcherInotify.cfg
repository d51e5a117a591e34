SPECIFICATION Spec
CONSTANTS
  Files = {f1}
  Delays = {1}
  MaxWait = 2
  Inotify = TRUE
  Warm = TRUE
  MaxEdits = 1
  MaxFaults = 0
  NoTimer = NoTimer
CHECK_DEADLOCK FALSE
INVARIANT QuietMeansCurrent
