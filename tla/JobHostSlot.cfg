SPECIFICATION Spec
CONSTANTS
  MaxAttempts = 1
  CounterMax = 10
  Provider = {p1}
  Digest = {d1}
  Artifact = {a1}
  None = None
  Cell = {c1, c2}
  Session = {s1, s2, s3}
  Choice = {}
  MaxPending = 2
  NavigationWindow = TRUE
INVARIANTS
  CacheCoherent
  RunningIsLeased
  SlotCoversInvocation
SYMMETRY Alike
CHECK_DEADLOCK FALSE
