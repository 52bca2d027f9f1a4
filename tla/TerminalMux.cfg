SPECIFICATION Spec
CONSTANTS
  Names = {s1}
  Clients = {c1}
  Torn = torn
  Detached = detached
  QueueSize = 2
  RingCap = 1
  MaxOutput = 2
  MaxStreams = 2
  MaxMounts = 1
  MaxFaults = 1
INVARIANTS TypeOK ScreenFollowsReader
PROPERTIES ScreenGoesForward OutputShown
CHECK_DEADLOCK FALSE
