SPECIFICATION Spec
CONSTANTS
  v1 = v1
  v2 = v2
  Preview = {v1, v2}
  MaxLoads = 3
  LastRequest = 2
  None = None
INVARIANTS
  InitsAlone
  CancelsOwn
PROPERTIES
  NewestShown
  LoadsAnswered
CHECK_DEADLOCK FALSE
