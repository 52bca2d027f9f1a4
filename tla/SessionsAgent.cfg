SPECIFICATION Spec
CONSTANTS
  Names = {n1}
  Threads = {t1}
  Starter = starter
  claude = claude
  codex = codex
  Agents = {claude, codex}
  c1 = c1
  c2 = c2
  Convs = {c1, c2}
  NoConv = NoConv
  Nobody = Nobody
  AgentOf <- TwoAgents
  CloudIds = {c2}
  MaxHooks = 1
  MaxTimers = 1
  MaxRequests = 3
  MaxCrashes = 0
  LossyHooks = FALSE
INVARIANT ResumeUsesOwningAgent
CHECK_DEADLOCK FALSE
