SPECIFICATION Spec
CONSTANTS
  Jobs = {1, 2}
  Slugs = {s1}
  Schedules = {hourly, outOfRange}
  BadSchedules = {}
  RaisingSchedules = {outOfRange}
  NoSchedule = NoSchedule
  Editors = {e1}
  Buttons = {}
  ForeignKeys = TRUE
  MaxRuns = 1
  MaxEdits = 2
  MaxStops = 1
  MaxCrashes = 1
INVARIANT ArmedAsEdited
CHECK_DEADLOCK FALSE
