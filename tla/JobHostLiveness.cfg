SPECIFICATION FairSpec
CONSTANTS
  MaxAttempts = 2
  CounterMax = 10
  Provider = {p1}
  Digest = {d1}
  Artifact = {a1}
  None = None
  Cell = {c1}
  Session = {s1, s2, s3}
  Choice = {}
  MaxPending = 2
  NavigationWindow = FALSE
PROPERTIES
  RunningEnds
  SlotFreed
CHECK_DEADLOCK FALSE
