SPECIFICATION Spec
CONSTANTS
  Users = {u1, u2}
  Sessions = {s1}
  Keys = {k1}
  Handlers = {h1, h2}
  MaxEpoch = 1
SYMMETRY Symmetry
CONSTRAINT KeysApart
INVARIANTS AccountsInv RevokedSessionsAreGone WindowsEndWithSessions
PROPERTIES LastAdminLostByStaleActor
