SPECIFICATION Spec
CONSTANTS
  k = k
  s = s
  p1 = p1
  p2 = p2
  Path = {p1, p2}
  Key = {k}
  SnapshotKey = {s}
  MaxHistory = 2
  MaxAtlas = 1
  MaxEdits = 3
  MaxSessions = 3
  MaxOpens = 2
  None = None
INVARIANTS
  HistoryConnects
PROPERTIES
  LateEndsKeepV11
SYMMETRY Alike
CHECK_DEADLOCK FALSE
