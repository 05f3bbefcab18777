SPECIFICATION Spec
CONSTANTS
  Users = {u1, u2}
  Projects = {p1, p2}
  Checks = {c1}
  Channels = {d1, d2}
  Requests = {r1}
  Values = {v1}
  Ntfy = {}
  Fragile = {d1, d2}
VIEW WithoutLast
SYMMETRY Symmetry
INVARIANTS WorkspaceInv BindingsInProject
PROPERTIES AccessIsEarned ForeignChangeIsAudited
CHECK_DEADLOCK FALSE
