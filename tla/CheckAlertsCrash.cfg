SPECIFICATION HFairSpec
CONSTANTS
  Checks = {c1}
  Requests = {r1}
  Schedules <- NoNagOnly
  Kinds = {}
  Intervals = {0}
  MaxTime = 2
  MaxFaults = 1
PROPERTY DownIsAnnounced
