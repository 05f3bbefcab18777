SPECIFICATION HFairSpec
CONSTANTS
  Checks = {c1}
  Requests = {r1}
  Schedules <- TightOnly
  Kinds = {"success", "fail", "start"}
  Intervals = {0}
  MaxTime = 1
  MaxFaults = 1
PROPERTIES LateIsHandled NagDueIsHandled UndisturbedDownIsAnnounced
