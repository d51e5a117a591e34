SPECIFICATION EngineSpec
CONSTANTS
  caller = caller
  callee = callee
  Files = {caller, callee}
  Uses <- CallerUsesCallee
  Created = {caller}
  MaxEdits = 2
  MaxRuns = 3
  MaxDeaths = 1
  MaxUnread = 1
  Definitions <- TwoFiles
  Endings <- SomeEndings
  MaxFileEvents = 3
  Sources = {f1, f2, f3}
  MaxEntries = 2
  Weights = {0, 2}
  Divisor = 10
  MaxWrites = 3
  Commands = {p1, p2}
  Items = {i1, i2}
  MaxHomeFaults = 1
  main = main
  inner = inner
  probe = probe
  hooked = hooked
  basic = basic
  Base = Base
  Derived = Derived
  Functions = {main, inner, probe}
  Methods = {hooked, basic}
  Classes = {Base, Derived}
  Programs <- SomePrograms
  Scans <- SomeScans
  Embedded = {fa, fb}
  BatchSize = 2
  MaxVersions = 3
  MaxResets = 1
  MaxIndexFaults = 1
CHECK_DEADLOCK FALSE
INVARIANTS EngineTypeOK SyncMeansCurrent FindsWhatIsThere NamesAreUnique IndicesAgree RecordedIsKept LiveHasReason ReachedIsAlive CliquesAreMaximal PairsAreReported IndexIsHonest
PROPERTIES UnreadIsKept LoadsAreCurrent
