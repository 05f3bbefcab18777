SPECIFICATION HSpec
CONSTANTS
  Checks = {c1}
  Requests = {r1}
  Kinds = {"success", "start"}
  Schedules <- Edited
  Intervals = {0, 1}
  MaxTime = 2
  MaxFaults = 1
CONSTRAINT SomeUndisturbed
INVARIANTS IncidentStartsFresh RemindersDeserved NextDueIsEarned
