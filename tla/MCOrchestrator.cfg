SPECIFICATION Spec
CONSTANTS
  Reports = {r1}
  Commits = {c1, c2}
  NoCommit = NoCommit
  NoReport = NoReport
  Handlers = {h1, h2}
  TTL = 1
  MaxTasks = 1
  PostOver = {"none", "running", "failed", "expired", "destroyed"}
  Deletes = TRUE
  Crashes = TRUE
  Deaths = TRUE
INVARIANTS ActiveJobsAreOwned  OrderlyShowsItsCommit 
PROPERTIES LostJobsNeedDelete ServesAsPromised
