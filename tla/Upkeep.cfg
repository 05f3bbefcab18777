SPECIFICATION Spec
CONSTANTS
  Sessions = {s1}
  Uses = {u1, u2}
  Half = 2
  Cap = 6
  MaxStall = 2
  MaxExpiry = 7
  LastTick = 8
  Tables <- TwoTables
  Audit = "audit"
  Admins = {a1, a2}
  Days = {0, 1, 3}
  MaxDays = 2
  LastDay = 2
CONSTRAINT Bounds
SYMMETRY Symmetry
INVARIANTS ExpiryTracksUse PassIsExact ChangesLeaveATrace
PROPERTIES SweptWereDead
CHECK_DEADLOCK FALSE
