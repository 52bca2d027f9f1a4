SPECIFICATION FairSpec
CONSTANTS
  Names = {n1}
  Threads = {t1}
  Starter = starter
  claude = claude
  codex = codex
  Agents = {claude}
  c1 = c1
  c2 = c2
  Convs = {c1, c2}
  NoConv = NoConv
  Nobody = Nobody
  AgentOf <- OneAgent
  CloudIds = {c2}
  MaxHooks = 1
  MaxTimers = 1
  MaxRequests = 2
  MaxCrashes = 1
  LossyHooks = TRUE
PROPERTIES KnownIdKept DeletedRowStaysDeleted BootCoversRows DeadPaneReported ResumeLeavesStarting
CHECK_DEADLOCK FALSE
