SPECIFICATION GitHubSpec
CONSTANTS
  None = None
  pull = pull
  job = job
  other = other
  Prs = {pull}
  Rows = {1, 2, 3}
  PrOf <- MCPrOf
  Tasks = {job, other}
  TaskOf <- MCTaskOf
  MaxEvents = 2
  Urls = {u}
  MaxAsks = 1
  MaxUses = 2
INVARIANTS GitHubTypeOK   RemovedStaysOut
PROPERTIES StampKept OpenIsFresh QueueFollows
CHECK_DEADLOCK FALSE
