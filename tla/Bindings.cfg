SPECIFICATION Spec
CONSTANTS
  Users = {u1}
  Projects = {p1}
  Checks = {c1}
  Channels = {d1, d2}
  Requests = {r1, r2}
  Values = {v1}
  Ntfy = {d1, d2}
  Fragile = {}
VIEW WithoutLast
SYMMETRY Symmetry
INVARIANTS OwedAreBound CredentialsAreSubmitted
PROPERTIES SavedAsSubmitted
CHECK_DEADLOCK FALSE
