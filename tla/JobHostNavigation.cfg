SPECIFICATION FairSpec
CONSTANTS
  MaxAttempts = 1
  CounterMax = 10
  Provider = {p1}
  Digest = {d1}
  Artifact = {a1}
  None = None
  Cell = {c1}
  Session = {s1, s2, s3}
  Choice = {}
  MaxPending = 2
  NavigationWindow = TRUE
PROPERTIES
  SlotFreed
CHECK_DEADLOCK FALSE
