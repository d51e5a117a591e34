SPECIFICATION ConsoleSpec
CONSTANTS
  Repos = {r1}
  Threads = {t1, t2}
  Rescan = Rescan
  NoRepo = NoRepo
  MaxCommits = 2
  MaxRequests = 2
  MaxFaults = 1
  MaxEvents = 2
  ChunkSize = 1
  MaxAuditFaults = 2
  NoOffset = NoOffset
INVARIANTS SavedIsReadable NamesItsCommit CompletedIsFresh GateIsKept AckedIsKept CheckpointIsHonest
PROPERTIES NeverStepsBack SnapshotsFollow LinesArrive
