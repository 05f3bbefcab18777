SPECIFICATION Spec
CONSTANTS
  MaxId = 4
  Kinds = {"start", "success"}
  Filters = {{}, {"success"}}
  Limit = 1
  Capacity = 2
  Loads = {l1, l2}
  MaxChanges = 3
INVARIANTS NothingIsSkipped WalkIsComplete TailShowsLatest
PROPERTIES TailCatchesUp
CHECK_DEADLOCK FALSE
