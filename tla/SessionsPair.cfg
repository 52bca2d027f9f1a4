SPECIFICATION Spec
CONSTANTS
  Names = {n1, n2}
  Threads = {t1, t2}
  Starter = starter
  claude = claude
  codex = codex
  Agents = {claude}
  c1 = c1
  c2 = c2
  Convs = {c1, c2}
  NoConv = NoConv
  Nobody = Nobody
  AgentOf <- OneAgent
  CloudIds = {c1, c2}
  MaxHooks = 1
  MaxTimers = 1
  MaxRequests = 2
  MaxCrashes = 1
  LossyHooks = FALSE
SYMMETRY Symmetric
INVARIANTS TypeOK ConversationInOnePane AgentHasRow
CHECK_DEADLOCK FALSE
