SPECIFICATION HSpec
CONSTANTS
  Checks = {c1}
  Requests = {r1}
  Schedules <- TightOnly
  Kinds = {"success"}
  Intervals = {0}
  MaxTime = 0
  MaxFaults = 0
PROPERTY PausedNotMoved
