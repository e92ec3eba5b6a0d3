CONSTANTS
  Ids = {x, y, z}
  Bodies = {b1, b2}
  Torn = Torn
  Missing = Missing
  MaxEdits = 1
SPECIFICATION Spec
INVARIANTS
  TypeOK
  ReopenIsExact
  IndexFollowsLines
CHECK_DEADLOCK FALSE
