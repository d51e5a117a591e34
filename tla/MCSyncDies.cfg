SPECIFICATION SyncSpec
CONSTANTS
  caller = caller
  callee = callee
  Files = {caller, callee}
  Uses <- CallerUsesCallee
  Created = {caller}
  MaxEdits = 0
  MaxRuns = 1
  MaxDeaths = 1
  MaxUnread = 0
CHECK_DEADLOCK FALSE
INVARIANT DeathIsNoticed
