SPECIFICATION Spec
CONSTANTS
  MaxAttempts = 2
  CounterMax = 10
  Provider = {p1}
  Digest = {d1, d2}
  Artifact = {a1}
  None = None
  Cell = {c1}
  Session = {s1, s2, s3}
  Choice = {x, y}
  MaxPending = 3
  NavigationWindow = TRUE
INVARIANTS
  TypeOK
  CellsRestorable
  AbortNotLost
PROPERTIES
  AdoptionIsFenced
  DecisionStands
  HonoursContract
SYMMETRY Alike
CHECK_DEADLOCK FALSE
