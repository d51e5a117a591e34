SPECIFICATION Spec
CONSTANTS
  Reports = {r1}
  Commits = {c1}
  NoCommit = NoCommit
  NoReport = NoReport
  Handlers = {h1}
  TTL = 1
  MaxTasks = 1
  PostOver = {"none", "failed", "expired", "destroyed"}
  Deletes = FALSE
  Crashes = FALSE
  Deaths = TRUE
PROPERTY ContainersExpire
CHECK_DEADLOCK FALSE
