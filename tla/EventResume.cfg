SPECIFICATION Spec
CONSTANTS
  Names = {s1}
  States = {live}
  Absent = absent
  Topics = {t1}
  NoTopic = none
  Writers = {w1}
  Clients = {c1}
  Resuming = {c1}
  QueueSize = 1
  ReplayLimit = 1
  MaxEvents = 3
  MaxStreams = 2
  MaxCrashes = 0
INVARIANTS MissedIsReplayed
CHECK_DEADLOCK FALSE
