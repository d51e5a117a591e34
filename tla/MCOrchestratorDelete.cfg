SPECIFICATION Spec
CONSTANTS
  Reports = {r1}
  Commits = {c1, c2}
  NoCommit = NoCommit
  NoReport = NoReport
  Handlers = {h1}
  TTL = 2
  MaxTasks = 2
  PostOver = {"none", "failed", "expired", "destroyed"}
  Deletes = TRUE
  Crashes = FALSE
  Deaths = FALSE
INVARIANT RunningShowsItsCommit
