SPECIFICATION UpkeepSpec
CONSTANTS
  None = None
  broken = broken
  healthy = healthy
  url = url
  t1 = t1
  Keys = {1, 2}
  Instances <- MCInstances
  Home <- MCHome
  Healthy = {healthy}
  HandMade = {handmade}
  Twins = 1
  Syncers = {scheduler}
  Users = {u1}
  Cap = 1
  MaxChanges = 2
  MaxActs = 1
  TaskIds = {t1, t2}
  Legacy = {t1}
  PrUrl <- MCPrUrl
  ReviewId <- MCReviewId
  Job = Job
  MaxFindings = 2
  MaxOutside = 1
INVARIANTS UpkeepTypeOK TicketOnce NothingLeftToFix
PROPERTIES PinnedNeverBadged RepairsOnlyBroken QueueMirrored
CHECK_DEADLOCK FALSE
