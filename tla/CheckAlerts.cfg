SPECIFICATION HSpec
CONSTANTS
  Checks = {c1}
  Requests = {r1, r2}
  Kinds = {"success", "fail", "start"}
  Schedules <- TightOnly
  Intervals = {0}
  MaxTime = 1
  MaxFaults = 1
CONSTRAINT SomeUndisturbed
SYMMETRY Symmetry
INVARIANTS HInv AlertsAgree AlertsAreNews
PROPERTIES PausedUntilResumed LastPingAdvances
