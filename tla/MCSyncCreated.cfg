SPECIFICATION SyncSpec
CONSTANTS
  caller = caller
  callee = callee
  Files = {caller, callee}
  Uses <- CallerUsesCallee
  Created = {caller, callee}
  MaxEdits = 2
  MaxRuns = 3
  MaxDeaths = 0
  MaxUnread = 0
CHECK_DEADLOCK FALSE
INVARIANT SyncMeansCurrent
