SPECIFICATION Spec
CONSTANTS
  Jobs = {1}
  Slugs = {s1}
  Schedules = {hourly, mistyped}
  BadSchedules = {mistyped}
  RaisingSchedules = {}
  NoSchedule = NoSchedule
  Editors = {e1}
  Buttons = {b1}
  ForeignKeys = TRUE
  MaxRuns = 3
  MaxEdits = 2
  MaxStops = 1
  MaxCrashes = 1
INVARIANTS TypeOK OpenRunsBounded RunsHaveJobs ArmedAsEdited
CHECK_DEADLOCK FALSE
