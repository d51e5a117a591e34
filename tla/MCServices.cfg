SPECIFICATION ServiceSpec
CONSTANTS
  Files = {f1, f2}
  Delays = {0, 2}
  MaxWait = 3
  Inotify = FALSE
  Warm = TRUE
  MaxEdits = 3
  MaxFaults = 1
  NoTimer = NoTimer
  Workers = {w1, w2}
  NoWorker = NoWorker
  Tries = 2
  MaxKills = 1
  Modules = {m1, m2}
  Project = Project
  BatchSize = 3
  Clients = {k1, k2}
  NoClient = NoClient
  MaxMishaps = 1
CHECK_DEADLOCK FALSE
INVARIANTS PendingInTime QuietMeansCurrent CallsMatchNodes LaunchedIsWhole OldBuilderIsRespected SuccessIsComplete
PROPERTIES Converges WholeStays EverybodyEnds VerdictSeesOneGraph RequestsEnd
